---- MODULE Spec2Model ----
(***************************************************************************)
(* A model of the core of the kevo storage engine: the write-ahead log     *)
(* (pkg/wal), the memtable and its recovery (pkg/memtable), the storage    *)
(* manager and the transaction manager (pkg/transaction).                  *)
(*                                                                         *)
(* Byte strings are sequences of numbers 0..255.  A nil slice and an empty *)
(* slice are both the empty sequence.  uint64 arithmetic is arithmetic     *)
(* modulo UintLimit, a scaled-down 2^64.                                   *)
(***************************************************************************)
EXTENDS Integers, Sequences, FiniteSets, TLC

(***************************************************************************)
(* Constants of pkg/wal.                                                   *)
(***************************************************************************)
RecordTypeFull == 1
RecordTypeFirst == 2
RecordTypeMiddle == 3
RecordTypeLast == 4

OpTypePut == 1
OpTypeDelete == 2
OpTypeMerge == 3

HeaderSize == 7

WALStatusActive == 0
WALStatusRotating == 1
WALStatusClosed == 2

(***************************************************************************)
(* Scaled sizes.  The program's MaxRecordSize is 32 KiB, its writer buffer *)
(* 64 KiB and its sequence numbers are 64 bits wide; the model keeps their *)
(* roles and their order (a metadata prefix fits in a record, a record     *)
(* fits in the buffer, the reserves lie below the largest number).         *)
(***************************************************************************)
MaxRecordSize == 20
WriterSize == 40
UintLimit == 32
OverflowReserve == 2
WarningReserve == 4

MaxUint64 == UintLimit - 1
MaxSequenceNumber == MaxUint64 - OverflowReserve
SequenceWarningThreshold == MaxUint64 - WarningReserve

SyncNone == "SyncNone"
SyncBatch == "SyncBatch"
SyncImmediate == "SyncImmediate"

(***************************************************************************)
(* Byte-level helpers: encoding/binary little endian and the checksum.     *)
(***************************************************************************)
RECURSIVE PutLE(_, _)
PutLE(v, n) == IF n = 0 THEN <<>> ELSE <<v % 256>> \o PutLE(v \div 256, n - 1)

RECURSIVE GetLE(_)
GetLE(b) == IF b = <<>> THEN 0 ELSE b[1] + 256 * GetLE(Tail(b))

Slice(b, from, to) == SubSeq(b, from + 1, to)

Min(a, b) == IF a < b THEN a ELSE b

\* hash/crc32.ChecksumIEEE, by a position-weighted sum: it depends on every
\* byte and on its place, which is what the reader's verification relies on.
RECURSIVE ChecksumFrom(_, _)
ChecksumFrom(data, i) ==
    IF i > Len(data) THEN 0
    ELSE (i * (data[i] + 1) + ChecksumFrom(data, i + 1)) % 65521

ChecksumIEEE(data) == ChecksumFrom(data, 1)

(***************************************************************************)
(* bufio.Writer over the WAL file.  wr = [buf, size, out]: the bytes held  *)
(* in memory, the capacity, and the bytes of the file.                     *)
(***************************************************************************)
BufWrite(wr, p) ==
    LET avail == wr.size - Len(wr.buf) IN
    IF Len(p) <= avail THEN [wr EXCEPT !.buf = @ \o p]
    ELSE IF Len(wr.buf) = 0 THEN [wr EXCEPT !.out = @ \o p]
    ELSE LET head == SubSeq(p, 1, avail)
             rest == SubSeq(p, avail + 1, Len(p))
         IN  IF Len(rest) > wr.size
             THEN [wr EXCEPT !.out = @ \o wr.buf \o head \o rest, !.buf = <<>>]
             ELSE [wr EXCEPT !.out = @ \o wr.buf \o head, !.buf = rest]

\* w.writer.Flush(): every buffered byte reaches the file.
Flush(st) == [st EXCEPT !.file = @ \o st.w.buf, !.w.buf = <<>>]

(***************************************************************************)
(* The WAL object.  An operation takes st = [w, file] (the object and the  *)
(* bytes of its file) and yields [w, file, ret, err].                      *)
(***************************************************************************)
Ret(w, file, ret, err) == [w |-> w, file |-> file, ret |-> ret, err |-> err]

Ok(r) == r.err = "nil"

\* The WAL value built by NewWAL for the file numbered seg.
NewWAL(cfg, seg) ==
    [cfg |-> cfg, file |-> seg, buf |-> <<>>, size |-> WriterSize,
     nextSequence |-> 1, bytesWritten |-> 0, batchByteSize |-> 0,
     status |-> WALStatusActive, overflowWarning |-> FALSE,
     fsyncs |-> 0, syncErr |-> "nil"]

\* The WAL value built by ReuseWAL over the latest file, of fileSize bytes.
ReuseWAL(cfg, seg, fileSize, nextSeq) ==
    [cfg |-> cfg, file |-> seg, buf |-> <<>>, size |-> WriterSize,
     nextSequence |-> nextSeq, bytesWritten |-> fileSize, batchByteSize |-> 0,
     status |-> WALStatusActive, overflowWarning |-> FALSE,
     fsyncs |-> 0, syncErr |-> "nil"]

writeRecordData(st, header, payload) ==
    LET a == BufWrite([buf |-> st.w.buf, size |-> st.w.size, out |-> st.file], header)
        b == BufWrite(a, payload)
        n == Len(header) + Len(payload)
    IN  Ret([st.w EXCEPT !.buf = b.buf,
                         !.bytesWritten = @ + n,
                         !.batchByteSize = @ + n],
            b.out, 0, "nil")

writeRawRecord(st, recordType, data) ==
    IF Len(data) > MaxRecordSize THEN Ret(st.w, st.file, 0, "record too large")
    ELSE LET header == PutLE(ChecksumIEEE(data), 4)
                       \o PutLE(Len(data) % 65536, 2)
                       \o <<recordType>>
         IN  writeRecordData(st, header, data)

PayloadSize(entryType, key, value) ==
    1 + 8 + 4 + Len(key) + (IF entryType # OpTypeDelete THEN 4 + Len(value) ELSE 0)

writeRecord(st, recordType, entryType, seqNum, key, value) ==
    IF PayloadSize(entryType, key, value) > MaxRecordSize
    THEN Ret(st.w, st.file, 0, "record too large")
    ELSE LET payload == <<entryType>> \o PutLE(seqNum, 8)
                        \o PutLE(Len(key), 4) \o key
                        \o (IF entryType # OpTypeDelete
                            THEN PutLE(Len(value), 4) \o value
                            ELSE <<>>)
         IN  writeRawRecord(st, recordType, payload)

RECURSIVE writeMiddleAndLast(_, _)
writeMiddleAndLast(st, remaining) ==
    IF Len(remaining) > MaxRecordSize
    THEN LET r == writeRawRecord(st, RecordTypeMiddle, SubSeq(remaining, 1, MaxRecordSize))
         IN  IF ~Ok(r) THEN r
             ELSE writeMiddleAndLast(r, SubSeq(remaining, MaxRecordSize + 1, Len(remaining)))
    ELSE IF Len(remaining) > 0
    THEN writeRawRecord(st, RecordTypeLast, remaining)
    ELSE Ret(st.w, st.file, 0, "nil")

\* writeFragmentedRecord with the key bytes beyond the first fragment left out.
writeFragmentedRecord_KeyCut(st, entryType, seqNum, key, value) ==
    LET headerSize == 1 + 8 + 4
        maxKeyInFirst == MaxRecordSize - headerSize
        keyInFirst == Min(Len(key), maxKeyInFirst)
        firstFragment == <<entryType>> \o PutLE(seqNum, 8) \o PutLE(Len(key), 4)
                         \o SubSeq(key, 1, keyInFirst)
        first == writeRawRecord(st, RecordTypeFirst, firstFragment)
        remaining == IF entryType # OpTypeDelete
                     THEN PutLE(Len(value), 4) \o value
                     ELSE <<0>>
    IN  IF ~Ok(first) THEN first ELSE writeMiddleAndLast(first, remaining)

writeFragmentedRecord(st, entryType, seqNum, key, value) ==
    LET headerSize == 1 + 8 + 4
        maxKeyInFirst == MaxRecordSize - headerSize
        keyInFirst == Min(Len(key), maxKeyInFirst)
        firstFragment == <<entryType>> \o PutLE(seqNum, 8) \o PutLE(Len(key), 4)
                         \o SubSeq(key, 1, keyInFirst)
        first == writeRawRecord(st, RecordTypeFirst, firstFragment)
        remaining == SubSeq(key, keyInFirst + 1, Len(key))
                     \o (IF entryType # OpTypeDelete
                         THEN PutLE(Len(value), 4) \o value
                         ELSE <<>>)
    IN  IF ~Ok(first) THEN first ELSE writeMiddleAndLast(first, remaining)

\* w.file.Sync() and what syncLocked does with its result: fsyncs counts the
\* calls of file.Sync on the WAL's file, syncErr is what they return.  Only a
\* sync that succeeded resets batchByteSize.
fileSync(st) ==
    LET w1 == [st.w EXCEPT !.fsyncs = @ + 1]
    IN  IF st.w.syncErr # "nil" THEN Ret(w1, st.file, 0, st.w.syncErr)
        ELSE Ret([w1 EXCEPT !.batchByteSize = 0], st.file, 0, "nil")

\* syncLocked that refuses a rotating WAL only.
syncLocked_RotatingOnly(st) ==
    IF st.w.status = WALStatusRotating THEN Ret(st.w, st.file, 0, "ErrWALRotating")
    ELSE fileSync(Flush(st))

\* syncLocked: the status check, then Flush and file.Sync.
syncLocked(st) ==
    IF st.w.status = WALStatusClosed THEN Ret(st.w, st.file, 0, "ErrWALClosed")
    ELSE IF st.w.status = WALStatusRotating THEN Ret(st.w, st.file, 0, "ErrWALRotating")
    ELSE fileSync(Flush(st))

\* maybeSync that syncs in every mode.
maybeSync_Always(st) == syncLocked(st)

maybeSync(st) ==
    LET needSync == \/ st.w.cfg.WALSyncMode = SyncImmediate
                    \/ /\ st.w.cfg.WALSyncMode = SyncBatch
                       /\ st.w.batchByteSize >= st.w.cfg.WALSyncBytes
    IN  IF needSync THEN syncLocked(st) ELSE Ret(st.w, st.file, 0, "nil")

ValidOpType(t) == t \in {OpTypePut, OpTypeDelete, OpTypeMerge}

\* One entry, whole or fragmented, as Append and AppendWithSequence write it.
\* The write that fragments every entry, whatever its size.
writeEntry_AlwaysFragments(st, entryType, seqNum, key, value) ==
    writeFragmentedRecord(st, entryType, seqNum, key, value)

writeEntry(st, entryType, seqNum, key, value) ==
    IF PayloadSize(entryType, key, value) <= MaxRecordSize
    THEN writeRecord(st, RecordTypeFull, entryType, seqNum, key, value)
    ELSE writeFragmentedRecord(st, entryType, seqNum, key, value)

WAL_Append(st, entryType, key, value) ==
    IF st.w.status = WALStatusClosed THEN Ret(st.w, st.file, 0, "ErrWALClosed")
    ELSE IF st.w.status = WALStatusRotating THEN Ret(st.w, st.file, 0, "ErrWALRotating")
    ELSE IF ~ValidOpType(entryType) THEN Ret(st.w, st.file, 0, "ErrInvalidOpType")
    ELSE IF st.w.nextSequence >= MaxSequenceNumber
    THEN Ret(st.w, st.file, 0, "ErrSequenceOverflow")
    ELSE LET seqNum == st.w.nextSequence
             w1 == [st.w EXCEPT
                       !.overflowWarning = @ \/ seqNum >= SequenceWarningThreshold,
                       !.nextSequence = (seqNum + 1) % UintLimit]
             wr == writeEntry([w |-> w1, file |-> st.file], entryType, seqNum, key, value)
             sy == maybeSync(wr)
         IN  IF ~Ok(wr) THEN Ret(wr.w, wr.file, 0, wr.err)
             ELSE IF ~Ok(sy) THEN Ret(sy.w, sy.file, 0, sy.err)
             ELSE Ret(sy.w, sy.file, seqNum, "nil")

\* AppendWithSequence that accepts MaxSequenceNumber itself.
AppendWithSequence_AcceptsMax(st, entryType, key, value, sequenceNumber) ==
    IF st.w.status = WALStatusClosed THEN Ret(st.w, st.file, 0, "ErrWALClosed")
    ELSE IF st.w.status = WALStatusRotating THEN Ret(st.w, st.file, 0, "ErrWALRotating")
    ELSE IF ~ValidOpType(entryType) THEN Ret(st.w, st.file, 0, "ErrInvalidOpType")
    ELSE IF sequenceNumber > MaxSequenceNumber
    THEN Ret(st.w, st.file, 0, "ErrSequenceOverflow")
    ELSE LET seqNum == sequenceNumber
             newNextSeq == (seqNum + 1) % UintLimit
             w1 == IF seqNum >= st.w.nextSequence
                   THEN [st.w EXCEPT
                            !.overflowWarning = @ \/ newNextSeq >= SequenceWarningThreshold,
                            !.nextSequence = newNextSeq]
                   ELSE st.w
             wr == writeEntry([w |-> w1, file |-> st.file], entryType, seqNum, key, value)
             sy == maybeSync(wr)
         IN  IF ~Ok(wr) THEN Ret(wr.w, wr.file, 0, wr.err)
             ELSE IF ~Ok(sy) THEN Ret(sy.w, sy.file, 0, sy.err)
             ELSE Ret(sy.w, sy.file, seqNum, "nil")

AppendWithSequence(st, entryType, key, value, sequenceNumber) ==
    IF st.w.status = WALStatusClosed THEN Ret(st.w, st.file, 0, "ErrWALClosed")
    ELSE IF st.w.status = WALStatusRotating THEN Ret(st.w, st.file, 0, "ErrWALRotating")
    ELSE IF ~ValidOpType(entryType) THEN Ret(st.w, st.file, 0, "ErrInvalidOpType")
    ELSE IF sequenceNumber >= MaxSequenceNumber
    THEN Ret(st.w, st.file, 0, "ErrSequenceOverflow")
    ELSE LET seqNum == sequenceNumber
             newNextSeq == (seqNum + 1) % UintLimit
             w1 == IF seqNum >= st.w.nextSequence
                   THEN [st.w EXCEPT
                            !.overflowWarning = @ \/ newNextSeq >= SequenceWarningThreshold,
                            !.nextSequence = newNextSeq]
                   ELSE st.w
             wr == writeEntry([w |-> w1, file |-> st.file], entryType, seqNum, key, value)
             sy == maybeSync(wr)
         IN  IF ~Ok(wr) THEN Ret(wr.w, wr.file, 0, wr.err)
             ELSE IF ~Ok(sy) THEN Ret(sy.w, sy.file, 0, sy.err)
             ELSE Ret(sy.w, sy.file, seqNum, "nil")

\* rawBytes is header and payload in one slice.  Reading payload[0] of an empty
\* payload is an index out of range: the call panics after the record was
\* written and nextSequence raised.
AppendExactBytes(st, rawBytes, seqNum) ==
    IF st.w.status = WALStatusClosed THEN Ret(st.w, st.file, 0, "ErrWALClosed")
    ELSE IF st.w.status = WALStatusRotating THEN Ret(st.w, st.file, 0, "ErrWALRotating")
    ELSE IF Len(rawBytes) < HeaderSize THEN Ret(st.w, st.file, 0, "raw WAL record too small")
    ELSE IF Len(rawBytes) # HeaderSize + GetLE(Slice(rawBytes, 4, 6))
    THEN Ret(st.w, st.file, 0, "raw WAL record size mismatch")
    ELSE LET w1 == IF seqNum >= st.w.nextSequence
                   THEN [st.w EXCEPT !.nextSequence = (seqNum + 1) % UintLimit]
                   ELSE st.w
             header == Slice(rawBytes, 0, HeaderSize)
             payload == Slice(rawBytes, HeaderSize, Len(rawBytes))
             wr == writeRecordData([w |-> w1, file |-> st.file], header, payload)
             sy == maybeSync(wr)
         IN  IF Len(payload) = 0 THEN Ret(wr.w, wr.file, 0, "panic")
             ELSE IF ~Ok(sy) THEN Ret(sy.w, sy.file, 0, sy.err)
             ELSE Ret(sy.w, sy.file, seqNum, "nil")

\* The size AppendBatch computes for the whole batch.
RECURSIVE BatchTotalSize(_)
BatchTotalSize(entries) ==
    IF entries = <<>> THEN 0
    ELSE HeaderSize + PayloadSize(Head(entries).Type, Head(entries).Key, Head(entries).Value)
         + BatchTotalSize(Tail(entries))

\* Room for the batch in the writer: flush what is buffered when the batch does
\* not fit, and take a larger writer when it exceeds the capacity.
EnsureBatchSpace(st, totalSize) ==
    IF totalSize > st.w.size - Len(st.w.buf)
    THEN LET f == Flush(st)
         IN  IF totalSize > st.w.size
             THEN [f EXCEPT !.w.size = totalSize + 1024]
             ELSE f
    ELSE st

\* The loop of AppendBatch: every entry as one Full record with the batch's
\* sequence number; the first failure ends the loop with what was written.
RECURSIVE writeBatchEntries(_, _, _)
writeBatchEntries(st, entries, startSeqNum) ==
    IF entries = <<>> THEN Ret(st.w, st.file, 0, "nil")
    ELSE LET e == Head(entries)
             r == writeRecord(st, RecordTypeFull, e.Type, startSeqNum, e.Key, e.Value)
         IN  IF ~Ok(r) THEN Ret(r.w, r.file, 0, "failed to write entry")
             ELSE writeBatchEntries(r, Tail(entries), startSeqNum)

\* AppendBatch that takes one sequence number per entry of the batch.
AppendBatch_PerEntry(st, entries) ==
    IF st.w.status = WALStatusClosed THEN Ret(st.w, st.file, 0, "ErrWALClosed")
    ELSE IF st.w.status = WALStatusRotating THEN Ret(st.w, st.file, 0, "ErrWALRotating")
    ELSE IF Len(entries) = 0 THEN Ret(st.w, st.file, st.w.nextSequence, "nil")
    ELSE IF st.w.nextSequence >= MaxSequenceNumber
    THEN Ret(st.w, st.file, 0, "ErrSequenceOverflow")
    ELSE LET startSeqNum == st.w.nextSequence
             w1 == [st.w EXCEPT
                       !.overflowWarning = @ \/ startSeqNum >= SequenceWarningThreshold]
             sp == EnsureBatchSpace([w |-> w1, file |-> st.file], BatchTotalSize(entries))
             wr == writeBatchEntries(sp, entries, startSeqNum)
             w2 == [wr.w EXCEPT !.nextSequence = (startSeqNum + Len(entries)) % UintLimit]
             sy == maybeSync([w |-> w2, file |-> wr.file])
         IN  IF ~Ok(wr) THEN Ret(wr.w, wr.file, 0, wr.err)
             ELSE IF ~Ok(sy) THEN Ret(sy.w, sy.file, 0, sy.err)
             ELSE Ret(sy.w, sy.file, startSeqNum, "nil")

AppendBatch(st, entries) ==
    IF st.w.status = WALStatusClosed THEN Ret(st.w, st.file, 0, "ErrWALClosed")
    ELSE IF st.w.status = WALStatusRotating THEN Ret(st.w, st.file, 0, "ErrWALRotating")
    ELSE IF Len(entries) = 0 THEN Ret(st.w, st.file, st.w.nextSequence, "nil")
    ELSE IF st.w.nextSequence >= MaxSequenceNumber
    THEN Ret(st.w, st.file, 0, "ErrSequenceOverflow")
    ELSE LET startSeqNum == st.w.nextSequence
             w1 == [st.w EXCEPT
                       !.overflowWarning = @ \/ startSeqNum >= SequenceWarningThreshold]
             sp == EnsureBatchSpace([w |-> w1, file |-> st.file], BatchTotalSize(entries))
             wr == writeBatchEntries(sp, entries, startSeqNum)
             w2 == [wr.w EXCEPT !.nextSequence = (startSeqNum + 1) % UintLimit]
             sy == maybeSync([w |-> w2, file |-> wr.file])
         IN  IF ~Ok(wr) THEN Ret(wr.w, wr.file, 0, wr.err)
             ELSE IF ~Ok(sy) THEN Ret(sy.w, sy.file, 0, sy.err)
             ELSE Ret(sy.w, sy.file, startSeqNum, "nil")

\* AppendBatchWithSequence that moves nextSequence past one number per entry.
AppendBatchWithSequence_PerEntry(st, entries, startSequence) ==
    IF st.w.status = WALStatusClosed THEN Ret(st.w, st.file, 0, "ErrWALClosed")
    ELSE IF st.w.status = WALStatusRotating THEN Ret(st.w, st.file, 0, "ErrWALRotating")
    ELSE IF Len(entries) = 0 THEN Ret(st.w, st.file, startSequence, "nil")
    ELSE IF startSequence >= MaxSequenceNumber
    THEN Ret(st.w, st.file, 0, "ErrSequenceOverflow")
    ELSE LET startSeqNum == startSequence
             w1 == [st.w EXCEPT
                       !.overflowWarning = @ \/ startSequence >= SequenceWarningThreshold]
             sp == EnsureBatchSpace([w |-> w1, file |-> st.file], BatchTotalSize(entries))
             wr == writeBatchEntries(sp, entries, startSeqNum)
             endSeq == (startSeqNum + Len(entries)) % UintLimit
             w2 == IF endSeq > wr.w.nextSequence
                   THEN [wr.w EXCEPT !.nextSequence = endSeq]
                   ELSE wr.w
             sy == maybeSync([w |-> w2, file |-> wr.file])
         IN  IF ~Ok(wr) THEN Ret(wr.w, wr.file, 0, wr.err)
             ELSE IF ~Ok(sy) THEN Ret(sy.w, sy.file, 0, sy.err)
             ELSE Ret(sy.w, sy.file, startSeqNum, "nil")

AppendBatchWithSequence(st, entries, startSequence) ==
    IF st.w.status = WALStatusClosed THEN Ret(st.w, st.file, 0, "ErrWALClosed")
    ELSE IF st.w.status = WALStatusRotating THEN Ret(st.w, st.file, 0, "ErrWALRotating")
    ELSE IF Len(entries) = 0 THEN Ret(st.w, st.file, startSequence, "nil")
    ELSE IF startSequence >= MaxSequenceNumber
    THEN Ret(st.w, st.file, 0, "ErrSequenceOverflow")
    ELSE LET startSeqNum == startSequence
             w1 == [st.w EXCEPT
                       !.overflowWarning = @ \/ startSequence >= SequenceWarningThreshold]
             sp == EnsureBatchSpace([w |-> w1, file |-> st.file], BatchTotalSize(entries))
             wr == writeBatchEntries(sp, entries, startSeqNum)
             endSeq == (startSeqNum + 1) % UintLimit
             w2 == IF endSeq > wr.w.nextSequence
                   THEN [wr.w EXCEPT !.nextSequence = endSeq]
                   ELSE wr.w
             sy == maybeSync([w |-> w2, file |-> wr.file])
         IN  IF ~Ok(wr) THEN Ret(wr.w, wr.file, 0, wr.err)
             ELSE IF ~Ok(sy) THEN Ret(sy.w, sy.file, 0, sy.err)
             ELSE Ret(sy.w, sy.file, startSeqNum, "nil")

\* Sync: syncLocked under the mutex.
WAL_Sync(st) == syncLocked(st)

\* Close that changes the status and closes the file without the flush.
WAL_Close_NoFlush(st) ==
    IF st.w.status = WALStatusClosed THEN Ret(st.w, st.file, 0, "nil")
    ELSE Ret([st.w EXCEPT !.status = WALStatusClosed], st.file, 0, "nil")

\* Close: flush and fsync, then Rotating, file.Close, Closed.
WAL_Close(st) ==
    IF st.w.status = WALStatusClosed THEN Ret(st.w, st.file, 0, "nil")
    ELSE LET f == Flush(st)
             w1 == [f.w EXCEPT !.fsyncs = @ + 1]
         IN  IF f.w.syncErr # "nil" THEN Ret(w1, f.file, 0, f.w.syncErr)
             ELSE Ret([w1 EXCEPT !.status = WALStatusClosed], f.file, 0, "nil")

SetRotating(w) == [w EXCEPT !.status = WALStatusRotating]

SetActive(w) == [w EXCEPT !.status = WALStatusActive]

UpdateNextSequence(w, nextSeq) ==
    IF nextSeq > w.nextSequence
    THEN [w EXCEPT !.overflowWarning = @ \/ nextSeq >= SequenceWarningThreshold,
                   !.nextSequence = nextSeq]
    ELSE w

GetNextSequence(w) == w.nextSequence

(***************************************************************************)
(* The WAL reader and ReplayWALDir.  A file is read record by record: a    *)
(* 7-byte header (crc, length, type), then length payload bytes.  A        *)
(* truncated or corrupt record ends the file.                              *)
(***************************************************************************)
Entry(t, s, k, v) == [Type |-> t, SequenceNumber |-> s, Key |-> k, Value |-> v]

RECURSIVE ReadRecords(_)
ReadRecords(data) ==
    IF Len(data) < HeaderSize THEN <<>>
    ELSE LET crc == GetLE(Slice(data, 0, 4))
             length == GetLE(Slice(data, 4, 6))
             type == data[7]
         IN  IF \/ type \notin {RecordTypeFull, RecordTypeFirst, RecordTypeMiddle, RecordTypeLast}
                \/ length > MaxRecordSize
                \/ Len(data) < HeaderSize + length
             THEN <<>>
             ELSE LET payload == Slice(data, HeaderSize, HeaderSize + length)
                  IN  IF crc # ChecksumIEEE(payload) THEN <<>>
                      ELSE <<[type |-> type, payload |-> payload]>>
                           \o ReadRecords(Slice(data, HeaderSize + length, Len(data)))

\* The logical entry of a payload, or the empty sequence when it is malformed.
DecodeEntry(p) ==
    IF Len(p) < 1 + 8 + 4 THEN <<>>
    ELSE LET t == p[1]
             s == GetLE(Slice(p, 1, 9))
             klen == GetLE(Slice(p, 9, 13))
         IN  IF ~ValidOpType(t) \/ Len(p) < 13 + klen THEN <<>>
             ELSE LET k == Slice(p, 13, 13 + klen)
                  IN  IF t = OpTypeDelete
                      THEN IF Len(p) = 13 + klen THEN <<Entry(t, s, k, <<>>)>> ELSE <<>>
                      ELSE IF Len(p) < 13 + klen + 4 THEN <<>>
                      ELSE LET vlen == GetLE(Slice(p, 13 + klen, 17 + klen))
                           IN  IF Len(p) # 17 + klen + vlen THEN <<>>
                               ELSE <<Entry(t, s, k, Slice(p, 17 + klen, Len(p)))>>

\* Reassembly: pending is <<>> or <<bytes>>, the fragments of the entry being
\* read.  A run that is not First, Middle..., Last is discarded.
RECURSIVE AssembleEntries(_, _)
AssembleEntries(recs, pending) ==
    IF recs = <<>> THEN <<>>
    ELSE LET r == Head(recs) IN
         IF r.type = RecordTypeFull
         THEN DecodeEntry(r.payload) \o AssembleEntries(Tail(recs), <<>>)
         ELSE IF r.type = RecordTypeFirst
         THEN AssembleEntries(Tail(recs), <<r.payload>>)
         ELSE IF pending = <<>>
         THEN AssembleEntries(Tail(recs), <<>>)
         ELSE IF r.type = RecordTypeMiddle
         THEN AssembleEntries(Tail(recs), <<pending[1] \o r.payload>>)
         ELSE DecodeEntry(pending[1] \o r.payload) \o AssembleEntries(Tail(recs), <<>>)

ReplayWALFile(data) == AssembleEntries(ReadRecords(data), <<>>)

\* The files of the directory oldest first; files[i] = [data, exists].
RECURSIVE ReplayWALDir(_)
ReplayWALDir(files) ==
    IF files = <<>> THEN <<>>
    ELSE (IF Head(files).exists THEN ReplayWALFile(Head(files).data) ELSE <<>>)
         \o ReplayWALDir(Tail(files))

File(data) == [data |-> data, exists |-> TRUE]

(***************************************************************************)
(* pkg/memtable.  The skip list is the sequence of its records in the      *)
(* order of its comparator: key ascending, sequence number descending.     *)
(***************************************************************************)
TypeValue == "TypeValue"
TypeDeletion == "TypeDeletion"

newEntry(key, value, valueType, seqNum) ==
    [key |-> key, value |-> value, valueType |-> valueType, seqNum |-> seqNum]

\* bytes.Compare(a, b) < 0.
RECURSIVE BytesLess(_, _)
BytesLess(a, b) ==
    IF b = <<>> THEN FALSE
    ELSE IF a = <<>> THEN TRUE
    ELSE IF Head(a) # Head(b) THEN Head(a) < Head(b)
    ELSE BytesLess(Tail(a), Tail(b))

\* The comparator: e1 sorts before e2.
EntryLess(e1, e2) ==
    \/ BytesLess(e1.key, e2.key)
    \/ e1.key = e2.key /\ e1.seqNum > e2.seqNum

\* The bytes a record adds to the approximate size.
EntrySize(e) == Len(e.key) + Len(e.value) + 16

\* Insert: the record goes after every record that sorts before it.
RECURSIVE SkipListInsert(_, _)
SkipListInsert(list, e) ==
    IF list # <<>> /\ EntryLess(Head(list), e)
    THEN <<Head(list)>> \o SkipListInsert(Tail(list), e)
    ELSE <<e>> \o list

\* Find: the first record of the key in list order, as <<record>>, or <<>>.
RECURSIVE SkipListFind(_, _)
SkipListFind(list, key) ==
    IF list = <<>> THEN <<>>
    ELSE IF Head(list).key = key THEN <<Head(list)>>
    ELSE SkipListFind(Tail(list), key)

NewMemTable == [skipList |-> <<>>, nextSeqNum |-> 0, immutable |-> FALSE, size |-> 0]

\* Put and Delete that insert into an immutable memtable too.
MemTableInsert_IgnoresImmutable(m, e) ==
    [m EXCEPT !.skipList = SkipListInsert(@, e),
              !.size = @ + EntrySize(e),
              !.nextSeqNum = IF e.seqNum > @ THEN (e.seqNum + 1) % UintLimit ELSE @]

\* Put and Delete: nothing on an immutable memtable; otherwise the insert, and
\* nextSeqNum raised to seqNum + 1 when seqNum is above it.
MemTableInsert(m, e) ==
    IF m.immutable THEN m
    ELSE [m EXCEPT !.skipList = SkipListInsert(@, e),
                   !.size = @ + EntrySize(e),
                   !.nextSeqNum = IF e.seqNum > @ THEN (e.seqNum + 1) % UintLimit ELSE @]

MemTablePut(m, key, value, seqNum) ==
    MemTableInsert(m, newEntry(key, value, TypeValue, seqNum))

MemTableDelete(m, key, seqNum) ==
    MemTableInsert(m, newEntry(key, <<>>, TypeDeletion, seqNum))

\* Get that reports a deletion marker as an absent key.
MemTableGet_TombstoneAbsent(m, key) ==
    LET e == SkipListFind(m.skipList, key) IN
    IF e = <<>> \/ e[1].valueType = TypeDeletion
    THEN [value |-> <<>>, found |-> FALSE, tombstone |-> FALSE]
    ELSE [value |-> e[1].value, found |-> TRUE, tombstone |-> FALSE]

\* Get: [value, found]; a deletion marker is found with a nil value.
MemTableGet(m, key) ==
    LET e == SkipListFind(m.skipList, key) IN
    IF e = <<>> THEN [value |-> <<>>, found |-> FALSE, tombstone |-> FALSE]
    ELSE IF e[1].valueType = TypeDeletion
    THEN [value |-> <<>>, found |-> TRUE, tombstone |-> TRUE]
    ELSE [value |-> e[1].value, found |-> TRUE, tombstone |-> FALSE]

\* Contains: whether Find has a record of the key, deletion marker or not.
MemTableContains(m, key) == SkipListFind(m.skipList, key) # <<>>

SetImmutable(m) == [m EXCEPT !.immutable = TRUE]

IsImmutable(m) == m.immutable

GetNextSequenceNumber(m) == m.nextSeqNum

\* NewIterator: no snapshot on an immutable memtable, else the snapshot is
\* nextSeqNum as it is now.
MemTableNewIterator(m) ==
    IF m.immutable THEN [snapshot |-> FALSE, snapSeq |-> 0]
    ELSE [snapshot |-> TRUE, snapSeq |-> m.nextSeqNum]

\* The records an iterator yields over the list as it is when it is walked: a
\* snapshot iterator skips the records whose seqNum is above its snapshot.
IteratorRecords(list, it) ==
    IF it.snapshot THEN SelectSeq(list, LAMBDA e : e.seqNum <= it.snapSeq) ELSE list

ApproximateSize(m) == m.size

ProcessWALEntry(m, entry) ==
    IF entry.Type = OpTypePut
    THEN MemTablePut(m, entry.Key, entry.Value, entry.SequenceNumber)
    ELSE IF entry.Type = OpTypeDelete
    THEN MemTableDelete(m, entry.Key, entry.SequenceNumber)
    ELSE m

\* The handler with the pool check off by one: a further memtable is refused
\* only when the list holds more than MaxMemTables.
RECURSIVE RecoverEntries_OneMore(_, _, _)
RecoverEntries_OneMore(rec, entries, opts) ==
    IF entries = <<>> \/ rec.err # "nil" THEN rec
    ELSE LET entry == Head(entries)
             n == Len(rec.memTables)
             current == rec.memTables[n]
             maxSeqNum == IF entry.SequenceNumber > rec.maxSeqNum
                          THEN entry.SequenceNumber ELSE rec.maxSeqNum
         IN  IF entry.SequenceNumber > opts.MaxSequenceNumber
             THEN RecoverEntries_OneMore(rec, Tail(entries), opts)
             ELSE IF ApproximateSize(current) >= opts.MemTableSize
             THEN IF n > opts.MaxMemTables
                  THEN [rec EXCEPT !.maxSeqNum = maxSeqNum,
                                   !.err = "maximum number of memtables exceeded"]
                  ELSE RecoverEntries_OneMore(
                           [rec EXCEPT
                               !.maxSeqNum = maxSeqNum,
                               !.memTables = SubSeq(@, 1, n - 1)
                                             \o <<SetImmutable(current),
                                                  ProcessWALEntry(NewMemTable, entry)>>],
                           Tail(entries), opts)
             ELSE RecoverEntries_OneMore(
                      [rec EXCEPT !.maxSeqNum = maxSeqNum,
                                  !.memTables[n] = ProcessWALEntry(current, entry)],
                      Tail(entries), opts)

\* RecoverFromWAL's handler over the replayed entries.  rec = [memTables,
\* maxSeqNum, err]; the first error ends the replay.
RECURSIVE RecoverEntries(_, _, _)
RecoverEntries(rec, entries, opts) ==
    IF entries = <<>> \/ rec.err # "nil" THEN rec
    ELSE LET entry == Head(entries)
             n == Len(rec.memTables)
             current == rec.memTables[n]
             maxSeqNum == IF entry.SequenceNumber > rec.maxSeqNum
                          THEN entry.SequenceNumber ELSE rec.maxSeqNum
         IN  IF entry.SequenceNumber > opts.MaxSequenceNumber
             THEN RecoverEntries(rec, Tail(entries), opts)
             ELSE IF ApproximateSize(current) >= opts.MemTableSize
             THEN IF n >= opts.MaxMemTables
                  THEN [rec EXCEPT !.maxSeqNum = maxSeqNum,
                                   !.err = "maximum number of memtables exceeded"]
                  ELSE RecoverEntries(
                           [rec EXCEPT
                               !.maxSeqNum = maxSeqNum,
                               !.memTables = SubSeq(@, 1, n - 1)
                                             \o <<SetImmutable(current),
                                                  ProcessWALEntry(NewMemTable, entry)>>],
                           Tail(entries), opts)
             ELSE RecoverEntries(
                      [rec EXCEPT !.maxSeqNum = maxSeqNum,
                                  !.memTables[n] = ProcessWALEntry(current, entry)],
                      Tail(entries), opts)

\* What RecoverFromWAL returns once the replay ended with rec: nil and 0 with
\* the error when the handler failed.
RecoverReturn(rec) ==
    IF rec.err # "nil" THEN [memTables |-> <<>>, maxSeqNum |-> 0, err |-> rec.err]
    ELSE rec

RecoverFromWAL(files, opts) ==
    RecoverReturn(
        RecoverEntries([memTables |-> <<NewMemTable>>, maxSeqNum |-> 0, err |-> "nil"],
                       ReplayWALDir(files), opts))

(***************************************************************************)
(* The storage manager.  S = [wals, disk, m]: the WAL objects, the WAL     *)
(* files and the manager m = [open, wal, memTable, immutables, sstables]:  *)
(* the index of the current WAL, the mutable memtable, the immutable ones  *)
(* oldest first, and the SSTables newest first.  An SSTable is the list of *)
(* its records in key order, one per key.                                  *)
(***************************************************************************)
MemTableSize == 40
MaxMemTables == 2

DefaultRecoveryOptions ==
    [MaxSequenceNumber |-> MaxUint64, MaxMemTables |-> MaxMemTables,
     MemTableSize |-> MemTableSize]

MgrRet(S, value, err) == [S |-> S, value |-> value, err |-> err]

NewManager(cfg) ==
    [wals |-> <<NewWAL(cfg, 1)>>,
     disk |-> <<File(<<>>)>>,
     m |-> [open |-> TRUE, wal |-> 1, memTable |-> NewMemTable,
            immutables |-> <<>>, sstables |-> <<>>]]

\* The file of the current WAL.
CurrentFile(S) == S.disk[S.wals[S.m.wal].file]

\* The first record of every key of a skip list: what the SSTable writer is
\* given, tombstones included.
RECURSIVE NewestPerKey(_)
NewestPerKey(list) ==
    IF list = <<>> THEN <<>>
    ELSE <<Head(list)>>
         \o NewestPerKey(SelectSeq(Tail(list), LAMBDA e : e.key # Head(list).key))

\* get over the memtables newest first, then the SSTables newest first.
RECURSIVE FirstHit(_, _)
FirstHit(lists, key) ==
    IF lists = <<>> THEN <<>>
    ELSE IF SkipListFind(Head(lists), key) # <<>> THEN SkipListFind(Head(lists), key)
    ELSE FirstHit(Tail(lists), key)

Reverse(q) == [i \in 1..Len(q) |-> q[Len(q) + 1 - i]]

ManagerGet(S, key) ==
    LET tables == <<S.m.memTable.skipList>>
                  \o Reverse([i \in 1..Len(S.m.immutables) |-> S.m.immutables[i].skipList])
                  \o S.m.sstables
        hit == FirstHit(tables, key)
    IN  IF hit = <<>> \/ hit[1].valueType = TypeDeletion
        THEN [value |-> <<>>, err |-> "ErrKeyNotFound"]
        ELSE [value |-> hit[1].value, err |-> "nil"]

\* The current WAL with its file, and S after a call on it returned r.
CurrentWAL(S) == [w |-> S.wals[S.m.wal], file |-> CurrentFile(S).data]

WithWAL(S, r) ==
    [S EXCEPT !.wals[S.m.wal] = r.w, !.disk[S.wals[S.m.wal].file].data = r.file]

\* rotate_wal, step by step: the current WAL is marked Rotating; a new WAL
\* file is opened and becomes current; the old WAL is closed; the mutable
\* memtable is marked immutable; it joins the immutable ones and a fresh one
\* takes its place.
MarkRotating(S) == [S EXCEPT !.wals[S.m.wal] = SetRotating(@)]

\* A swap that clears the pointer and stores nothing in its place.
SwapWAL_Unset(S) == [S EXCEPT !.m.wal = 0]

SwapWAL(S) ==
    [S EXCEPT !.wals = Append(@, NewWAL(S.wals[S.m.wal].cfg, Len(S.disk) + 1)),
              !.disk = Append(@, File(<<>>)),
              !.m.wal = Len(S.wals) + 1]

OldClosed(S, old, r) ==
    [S EXCEPT !.wals[old] = r.w, !.disk[S.wals[old].file].data = r.file]

CloseOld(S, old) ==
    OldClosed(S, old, WAL_Close([w |-> S.wals[old], file |-> S.disk[S.wals[old].file].data]))

MarkImmutable(S) == [S EXCEPT !.m.memTable = SetImmutable(@)]

PushMemTable(S) ==
    [S EXCEPT !.m.immutables = Append(@, S.m.memTable), !.m.memTable = NewMemTable]

RotateWAL(S) ==
    PushMemTable(MarkImmutable(CloseOld(SwapWAL(MarkRotating(S)), S.m.wal)))

\* The rotation of a full memtable when the pool has room.
RotateIfFull(S, seqNum) ==
    IF /\ ApproximateSize(S.m.memTable) >= MemTableSize
       /\ Len(S.m.immutables) < MaxMemTables
    THEN MgrRet(RotateWAL(S), seqNum, "nil")
    ELSE MgrRet(S, seqNum, "nil")

\* The memtable insert with the sequence number the WAL assigned.
ApplyWrite(S, entryType, key, value, seqNum) ==
    [S EXCEPT !.m.memTable =
        IF entryType = OpTypePut THEN MemTablePut(@, key, value, seqNum)
        ELSE MemTableDelete(@, key, seqNum)]

\* put and delete once the WAL append returned r.
Appended(S, r, entryType, key, value) ==
    IF ~Ok(r) THEN MgrRet(WithWAL(S, r), 0, r.err)
    ELSE RotateIfFull(ApplyWrite(WithWAL(S, r), entryType, key, value, r.ret), r.ret)

\* put and delete: the WAL append, then the memtable insert, then the rotation
\* of a full memtable.
ManagerWrite(S, entryType, key, value) ==
    Appended(S, WAL_Append(CurrentWAL(S), entryType, key, value), entryType, key, value)

ManagerPut(S, key, value) == ManagerWrite(S, OpTypePut, key, value)

ManagerDelete(S, key) == ManagerWrite(S, OpTypeDelete, key, <<>>)

\* Every immutable memtable, oldest first, becomes the newest SSTable, and the
\* WAL segments they covered are deleted.
FlushImmutables(S) ==
    IF S.m.immutables = <<>> THEN S
    ELSE [S EXCEPT
             !.m.sstables = Reverse([i \in 1..Len(S.m.immutables) |->
                                        NewestPerKey(S.m.immutables[i].skipList)]) \o @,
             !.m.immutables = <<>>,
             !.disk = [i \in 1..Len(S.disk) |->
                          IF i = S.wals[S.m.wal].file THEN S.disk[i]
                          ELSE [data |-> <<>>, exists |-> FALSE]]]

\* flush_memtables: a mutable memtable that holds records is rotated out
\* first.
FlushMemTables(S) ==
    FlushImmutables(IF S.m.memTable.skipList # <<>> THEN RotateWAL(S) ELSE S)

\* close: the WAL is flushed, synced and closed; the memtables are not flushed.
Closed(S) ==
    [S EXCEPT !.m.open = FALSE, !.m.memTable = NewMemTable, !.m.immutables = <<>>]

ManagerClose(S) == Closed(WithWAL(S, WAL_Close(CurrentWAL(S))))

\* The latest WAL file that exists, or 0.
RECURSIVE LatestFile(_, _)
LatestFile(disk, i) ==
    IF i = 0 THEN 0 ELSE IF disk[i].exists THEN i ELSE LatestFile(disk, i - 1)

\* The manager over the recovered memtables, the last of them mutable.
Recovered(S, memTables) ==
    [S.m EXCEPT !.open = TRUE,
                !.wal = Len(S.wals) + 1,
                !.memTable = memTables[Len(memTables)],
                !.immutables = [i \in 1..(Len(memTables) - 1) |-> SetImmutable(memTables[i])]]

\* The WAL of a start: the latest file reused when reuse is set and a file
\* exists, else a new file; either way it resumes at nextSeq.
OpenWAL(S, m, reuse, latest, nextSeq) ==
    IF reuse /\ latest # 0
    THEN [wals |-> Append(S.wals, ReuseWAL(S.wals[1].cfg, latest,
                                           Len(S.disk[latest].data), nextSeq)),
          disk |-> S.disk,
          m |-> m]
    ELSE [wals |-> Append(S.wals, UpdateNextSequence(
                                      NewWAL(S.wals[1].cfg, Len(S.disk) + 1), nextSeq)),
          disk |-> Append(S.disk, File(<<>>)),
          m |-> m]

OpenRecovered(S, rec, reuse) ==
    IF rec.err # "nil" THEN MgrRet(S, 0, rec.err)
    ELSE MgrRet(OpenWAL(S, Recovered(S, rec.memTables), reuse,
                        LatestFile(S.disk, Len(S.disk)),
                        (rec.maxSeqNum + 1) % UintLimit),
                0, "nil")

\* Start over the same directories: the memtables are rebuilt by RecoverFromWAL
\* and the WAL resumes at maxSeqNum + 1.
ManagerOpen(S, reuse) ==
    OpenRecovered(S, RecoverFromWAL(S.disk, DefaultRecoveryOptions), reuse)

\* A committed write set: one AppendBatch, then every entry into the memtable
\* with the batch's sequence number.
RECURSIVE ApplyEntries(_, _, _)
ApplyEntries(S, entries, seqNum) ==
    IF entries = <<>> THEN S
    ELSE ApplyEntries(ApplyWrite(S, Head(entries).Type, Head(entries).Key,
                                 Head(entries).Value, seqNum),
                      Tail(entries), seqNum)

BatchAppended(S, r, entries) ==
    IF ~Ok(r) THEN MgrRet(WithWAL(S, r), 0, r.err)
    ELSE RotateIfFull(ApplyEntries(WithWAL(S, r), entries, r.ret), r.ret)

ManagerApplyBatch(S, entries) ==
    IF entries = <<>> THEN MgrRet(S, 0, "nil")
    ELSE BatchAppended(S, AppendBatch(CurrentWAL(S), entries), entries)

(***************************************************************************)
(* pkg/transaction.  txLock is the manager's sync.RWMutex: w is the writer *)
(* that holds the mutex's inner lock (0 when none), locked whether that    *)
(* writer has the lock, readers the transactions that hold the read side.  *)
(* A writer that waits keeps new readers out.                              *)
(***************************************************************************)
ReadOnly == "ReadOnly"
ReadWrite == "ReadWrite"

NewRWMutex == [w |-> 0, locked |-> FALSE, readers |-> {}]

\* RLock that waits only for a writer that holds the lock, not for one that
\* awaits it.
CanRLock_IgnoresWaiting(l) == ~l.locked

\* RLock returns when no writer holds or awaits the lock.
CanRLock(l) == l.w = 0

RLock(l, id) == [l EXCEPT !.readers = @ \union {id}]

RUnlock(l, id) == [l EXCEPT !.readers = @ \ {id}]

\* Lock: the writer first takes the inner lock, then waits for the readers.
CanLockBegin(l) == l.w = 0

LockBegin(l, id) == [l EXCEPT !.w = id]

CanLockAcquire(l, id) == l.w = id /\ ~l.locked /\ l.readers = {}

LockAcquire(l) == [l EXCEPT !.locked = TRUE]

Unlock(l) == [l EXCEPT !.w = 0, !.locked = FALSE]

\* A write set: the buffered operations, one per key, in key order.
NewBuffer == <<>>

RECURSIVE BufferPut(_, _)
BufferPut(buffer, op) ==
    IF buffer = <<>> THEN <<op>>
    ELSE IF Head(buffer).Key = op.Key THEN <<op>> \o Tail(buffer)
    ELSE IF BytesLess(op.Key, Head(buffer).Key) THEN <<op>> \o buffer
    ELSE <<Head(buffer)>> \o BufferPut(Tail(buffer), op)

\* The buffered operation of a key, as <<op>>, or <<>>.
BufferGet(buffer, key) == SelectSeq(buffer, LAMBDA op : op.Key = key)

\* The TransactionImpl that BeginTransaction builds, before it takes the lock.
NewTransaction(mode) ==
    [mode |-> mode, buffer |-> NewBuffer, active |-> TRUE,
     hasReadLock |-> FALSE, hasWriteLock |-> FALSE]

\* BeginTransaction that takes the read side in both modes.
LockMode_AlwaysRLock(mode) == "RLock"

\* The lock BeginTransaction takes for a mode.
LockMode(mode) == IF mode = ReadOnly THEN "RLock" ELSE "Lock"

\* get inside a transaction: the write buffer first, then the manager.
TxGet(tx, S, key) ==
    IF BufferGet(tx.buffer, key) # <<>>
    THEN IF BufferGet(tx.buffer, key)[1].Type = OpTypeDelete
         THEN [value |-> <<>>, err |-> "ErrKeyNotFound"]
         ELSE [value |-> BufferGet(tx.buffer, key)[1].Value, err |-> "nil"]
    ELSE ManagerGet(S, key)

\* put and delete inside a transaction: refused when the transaction is over
\* or read-only, else buffered.
TxWrite(tx, entryType, key, value) ==
    IF ~tx.active \/ tx.mode = ReadOnly THEN tx
    ELSE [tx EXCEPT !.buffer = BufferPut(@, Entry(entryType, 0, key, value))]

\* The lock after a transaction let go of what it holds, and the transaction.
ReleaseLock(l, tx, id) ==
    IF tx.hasReadLock THEN RUnlock(l, id)
    ELSE IF tx.hasWriteLock THEN Unlock(l)
    ELSE l

\* A transaction that ends but keeps the marks of the lock it held.
Released_KeepsMarks(tx) == [tx EXCEPT !.active = FALSE]

Released(tx) == [tx EXCEPT !.active = FALSE, !.hasReadLock = FALSE, !.hasWriteLock = FALSE]

\* commit and rollback of tx over the manager S: [tx, S, err].  A transaction
\* that is over is left alone, so a second commit or rollback releases nothing.
TxDone(tx, S, err) == [tx |-> tx, S |-> S, err |-> err]

Committed(tx, r) ==
    IF r.err # "nil" THEN TxDone(tx, r.S, r.err) ELSE TxDone(Released(tx), r.S, "nil")

TxCommit(tx, S) ==
    IF ~tx.active THEN TxDone(tx, S, "ErrTransactionClosed")
    ELSE IF tx.mode = ReadOnly THEN TxDone(Released(tx), S, "nil")
    ELSE Committed(tx, ManagerApplyBatch(S, tx.buffer))

\* TxRollback that applies the write set as commit does.
TxRollback_Applies(tx, S) ==
    IF ~tx.active THEN TxDone(tx, S, "ErrTransactionClosed")
    ELSE TxDone(Released([tx EXCEPT !.buffer = NewBuffer]),
                ManagerApplyBatch(S, tx.buffer).S, "nil")

TxRollback(tx, S) ==
    IF ~tx.active THEN TxDone(tx, S, "ErrTransactionClosed")
    ELSE TxDone(Released([tx EXCEPT !.buffer = NewBuffer]), S, "nil")

(***************************************************************************)
(* State of the WAL specifications.                                        *)
(*   wals   the WAL objects created so far, in creation order              *)
(*   disk   the WAL files, oldest first                                    *)
(*   hist   the append calls made so far and what each returned            *)
(*   last   the last call of any kind                                      *)
(* and of the manager specification:                                       *)
(*   mgr    the storage manager                                            *)
(*   writes the puts and deletes that returned success, in the order they  *)
(*          held the transaction lock                                      *)
(* and of the concurrent specification:                                    *)
(*   threads  per writer: where it is in put and what its puts returned    *)
(*   rotation where the thread that runs rotate_wal is                     *)
(* and of the transaction specification:                                   *)
(*   txs       per client: where it is in BeginTransaction, its            *)
(*             transaction, and how many it began and wrote                *)
(*   txLock    the transaction manager's lock                              *)
(*   committed per key, what the committed writes make get return          *)
(* and of the flush specification:                                         *)
(*   flush  where the thread that runs flush_memtables is                  *)
(*   sstDir the files of the SSTable directory, oldest first               *)
(***************************************************************************)
VARIABLES wals, disk, hist, last, mgr, writes, threads, rotation, txs, txLock, committed,
          flush, sstDir

walVars == <<wals, disk, hist, last>>

mgrVars == <<mgr, writes>>

concVars == <<threads, rotation>>

txVars == <<txs, txLock, committed>>

flushVars == <<flush, sstDir>>

vars == <<wals, disk, hist, last, mgr, writes, threads, rotation, txs, txLock, committed,
         flush, sstDir>>

NoThreads == <<>>

\* The transaction variables of a specification without transactions.
NoTransactions ==
    /\ txs = <<>>
    /\ txLock = NewRWMutex
    /\ committed = <<>>

NoRotation == [pc |-> "idle", old |-> 0]

\* The flush variables of a specification without a stepwise flush_memtables.
NoFlush ==
    /\ flush = [pc |-> "idle"]
    /\ sstDir = <<>>

NoManager == [open |-> FALSE, wal |-> 0, memTable |-> NewMemTable,
              immutables |-> <<>>, sstables |-> <<>>]

Cfg(mode) == [WALSyncMode |-> mode, WALSyncBytes |-> WriterSize]

\* A call: its name, the entries and the sequence number it was given, what it
\* returned, nextSequence before it, and the bytes it added to buffer and file.
Call(op, entries, seqArg, r, st) ==
    [op |-> op, entries |-> entries, seqArg |-> seqArg, ret |-> r.ret, err |-> r.err,
     before |-> st.w.nextSequence,
     wrote |-> SubSeq(r.file \o r.w.buf, Len(st.file \o st.w.buf) + 1,
                      Len(r.file \o r.w.buf))]

NoCall == [op |-> "none", entries |-> <<>>, seqArg |-> 0, ret |-> 0, err |-> "nil",
           before |-> 0, wrote |-> <<>>]

St(i) == [w |-> wals[i], file |-> disk[wals[i].file].data]

\* The state after the call on WAL i returned r.
Apply(i, r) ==
    /\ wals' = [wals EXCEPT ![i] = r.w]
    /\ disk' = [disk EXCEPT ![wals[i].file].data = r.file]
    /\ UNCHANGED <<mgrVars, concVars, txVars, flushVars>>

\* An append call on WAL i that returned r.
Record(i, op, entries, seqArg, r) ==
    /\ Apply(i, r)
    /\ last' = Call(op, entries, seqArg, r, St(i))
    /\ hist' = Append(hist, Call(op, entries, seqArg, r, St(i)))

\* What replay is to deliver for an entry written with sequence number s.
AsWritten(e, s) ==
    Entry(e.Type, s, e.Key, IF e.Type = OpTypeDelete THEN <<>> ELSE e.Value)

RECURSIVE BatchAsWritten(_, _)
BatchAsWritten(entries, s) ==
    IF entries = <<>> THEN <<>>
    ELSE <<AsWritten(Head(entries), s)>> \o BatchAsWritten(Tail(entries), s)

\* The logical entries of the calls of h that returned success.
RECURSIVE Written(_)
Written(h) ==
    IF h = <<>> THEN <<>>
    ELSE (IF Ok(Head(h)) THEN BatchAsWritten(Head(h).entries, Head(h).ret) ELSE <<>>)
         \o Written(Tail(h))

(***************************************************************************)
(* SpecRT: successful Append and AppendBatch calls over one directory,     *)
(* Close, and a further WAL opened by NewWAL once the last one is closed.  *)
(***************************************************************************)
MaxCalls == 3
MaxSegments == 2

Bytes(n, b) == [i \in 1..n |-> (b + i) % 256]

\* Entries at the sizes that matter: empty key and value, a payload of exactly
\* MaxRecordSize, one byte more, a value longer than a record, a key longer
\* than the first fragment, a Delete that is given a value, a Merge.
RTEntries ==
    { Entry(OpTypePut, 0, <<>>, <<>>),
      Entry(OpTypePut, 0, <<1>>, Bytes(MaxRecordSize - 18, 7)),
      Entry(OpTypePut, 0, <<1>>, Bytes(MaxRecordSize - 17, 7)),
      Entry(OpTypeMerge, 0, <<2>>, Bytes(MaxRecordSize + 1, 40)),
      Entry(OpTypeDelete, 0, Bytes(MaxRecordSize - 12, 100), <<9>>) }

RTBatches ==
    { <<Entry(OpTypePut, 0, <<>>, <<>>), Entry(OpTypeDelete, 0, <<1>>, <<9>>),
        Entry(OpTypeMerge, 0, <<1>>, <<>>)>> }

RTInit ==
    /\ \E mode \in {SyncNone, SyncBatch, SyncImmediate} :
          wals = <<NewWAL(Cfg(mode), 1)>>
    /\ disk = <<File(<<>>)>>
    /\ hist = <<>>
    /\ last = NoCall
    /\ mgr = NoManager
    /\ writes = <<>>
    /\ threads = NoThreads
    /\ rotation = NoRotation
    /\ NoFlush
    /\ NoTransactions

RTAppend ==
    /\ Len(hist) < MaxCalls
    /\ \E e \in RTEntries :
          LET i == Len(wals)
              r == WAL_Append(St(i), e.Type, e.Key, e.Value)
          IN  Ok(r) /\ Record(i, "Append", <<e>>, 0, r)

RTAppendBatch ==
    /\ Len(hist) < MaxCalls
    /\ \E b \in RTBatches :
          LET i == Len(wals)
              r == AppendBatch(St(i), b)
          IN  Ok(r) /\ Record(i, "AppendBatch", b, 0, r)

RTClose ==
    LET i == Len(wals)
        r == WAL_Close(St(i))
    IN  /\ wals[i].status # WALStatusClosed
        /\ Apply(i, r)
        /\ last' = Call("Close", <<>>, 0, r, St(i))
        /\ UNCHANGED hist

RTNewWAL ==
    /\ Len(wals) < MaxSegments
    /\ wals[Len(wals)].status = WALStatusClosed
    /\ wals' = Append(wals, NewWAL(wals[1].cfg, Len(disk) + 1))
    /\ disk' = Append(disk, File(<<>>))
    /\ last' = [NoCall EXCEPT !.op = "NewWAL"]
    /\ UNCHANGED <<hist, mgrVars, concVars, txVars, flushVars>>

RTNext == RTAppend \/ RTAppendBatch \/ RTClose \/ RTNewWAL

SpecRT == RTInit /\ [][RTNext]_vars

AllClosed == \A i \in 1..Len(wals) : wals[i].status = WALStatusClosed

\* C5: once every WAL of the directory is closed, ReplayWALDir delivers exactly
\* the entries of the successful Append and AppendBatch calls, in append order
\* and segments oldest first, each with its op type, sequence number, key and
\* value (a Delete with a nil value).
C5_ReplayIsAppended == AllClosed => ReplayWALDir(disk) = Written(hist)

\* A closed directory of two segments whose entries include a fragmented one,
\* a zero-length key and value, and a Delete.
C5_Witness ==
    /\ AllClosed
    /\ Len(wals) = 2
    /\ disk[2].data # <<>>
    /\ Len(ReadRecords(disk[1].data)) + Len(ReadRecords(disk[2].data)) > Len(Written(hist))
    /\ \E j \in 1..Len(Written(hist)) :
          Written(hist)[j].Key = <<>> /\ Written(hist)[j].Type = OpTypePut
    /\ \E j \in 1..Len(Written(hist)) : Written(hist)[j].Type = OpTypeDelete

(***************************************************************************)
(* SpecWAL: Append, AppendBatch and AppendExactBytes on one WAL, failing    *)
(* calls included, with Sync and Close.  The file of a state is what a     *)
(* replay after a crash in that state reads: the bytes still in the        *)
(* writer's buffer are lost with the process.  last is the last append     *)
(* call; Sync and Close leave nextSequence alone.                          *)
(***************************************************************************)

\* The keys of the batch entries of call n start with the byte 200 + n, so
\* that replay can tell the entries of one batch from every other entry.
BatchKey(n, j) == <<200 + n, j>>

\* The batches given to call n: two small entries; a small entry followed by
\* one whose payload is larger than MaxRecordSize; the empty batch.
WALBatches(n) ==
    { <<Entry(OpTypePut, 0, BatchKey(n, 1), <<5>>),
        Entry(OpTypeDelete, 0, BatchKey(n, 2), <<>>)>>,
      <<Entry(OpTypePut, 0, BatchKey(n, 1), <<5>>),
        Entry(OpTypePut, 0, BatchKey(n, 2), Bytes(MaxRecordSize, 3))>>,
      <<>> }

WALEntries ==
    { Entry(OpTypePut, 0, <<1>>, <<7>>),
      Entry(OpTypeDelete, 0, <<1>>, <<>>) }

\* A well-formed record of an entry, as the replication layer hands it to
\* AppendExactBytes.
RawRecord(e, seqNum) ==
    LET payload == <<e.Type>> \o PutLE(seqNum, 8) \o PutLE(Len(e.Key), 4) \o e.Key
                   \o PutLE(Len(e.Value), 4) \o e.Value
    IN  PutLE(ChecksumIEEE(payload), 4) \o PutLE(Len(payload), 2)
        \o <<RecordTypeFull>> \o payload

\* Sequence numbers handed to AppendExactBytes.
WALSeqs == {2, MaxUint64}

WALInit ==
    /\ \E mode \in {SyncNone, SyncImmediate} :
          wals = <<NewWAL(Cfg(mode), 1)>>
    /\ disk = <<File(<<>>)>>
    /\ hist = <<>>
    /\ last = NoCall
    /\ mgr = NoManager
    /\ writes = <<>>
    /\ threads = NoThreads
    /\ rotation = NoRotation
    /\ NoFlush
    /\ NoTransactions

WALAppend ==
    /\ Len(hist) < MaxCalls
    /\ \E e \in WALEntries :
          Record(1, "Append", <<e>>, 0, WAL_Append(St(1), e.Type, e.Key, e.Value))

WALAppendBatch ==
    /\ Len(hist) < MaxCalls
    /\ \E b \in WALBatches(Len(hist) + 1) :
          Record(1, "AppendBatch", b, 0, AppendBatch(St(1), b))

WALAppendExactBytes ==
    /\ Len(hist) < MaxCalls
    /\ \E seqNum \in WALSeqs :
          Record(1, "AppendExactBytes", <<Entry(OpTypePut, 0, <<3>>, <<8>>)>>, seqNum,
                 AppendExactBytes(St(1), RawRecord(Entry(OpTypePut, 0, <<3>>, <<8>>), seqNum),
                                  seqNum))

WALSync ==
    /\ wals[1].fsyncs < MaxCalls
    /\ Apply(1, WAL_Sync(St(1)))
    /\ UNCHANGED <<hist, last>>

WALClose ==
    /\ Apply(1, WAL_Close(St(1)))
    /\ UNCHANGED <<hist, last>>

WALNext ==
    \/ WALAppend
    \/ WALAppendBatch
    \/ WALAppendExactBytes
    \/ WALSync
    \/ WALClose

SpecWAL == WALInit /\ [][WALNext]_vars

\* The entries a replay of the directory delivers in the current state.
Replayed == ReplayWALDir(disk)

\* How many of the replayed entries belong to the batch of call n.
DeliveredOf(n) ==
    Cardinality({j \in 1..Len(Replayed) :
                    Len(Replayed[j].Key) = 2 /\ Replayed[j].Key[1] = 200 + n})

\* C4: whatever AppendBatch returned and wherever the process stops, a replay
\* of the log delivers every entry of a batch or none of them.
C4_BatchAllOrNone ==
    \A n \in 1..Len(hist) :
        hist[n].op = "AppendBatch" => DeliveredOf(n) \in {0, Len(hist[n].entries)}

\* The sequence numbers returned by the successful Append calls, in call order.
RECURSIVE AppendRets(_)
AppendRets(h) ==
    IF h = <<>> THEN <<>>
    ELSE (IF Head(h).op = "Append" /\ Ok(Head(h)) THEN <<Head(h).ret>> ELSE <<>>)
         \o AppendRets(Tail(h))

\* C6: every successful Append returns a sequence number strictly greater than
\* the one every earlier successful Append on the WAL returned.
C6_AppendStrictlyIncreasing ==
    \A i, j \in 1..Len(AppendRets(hist)) :
        i < j => AppendRets(hist)[i] < AppendRets(hist)[j]

\* C7: a successful AppendBatch of a non-empty batch returns the value S that
\* nextSequence had before the call, writes every entry of the batch with
\* sequence number S in the given order, and leaves nextSequence at S + 1.
C7_BatchSharesOneSequence ==
    (hist # <<>> /\ last.op = "AppendBatch" /\ Ok(last) /\ last.entries # <<>>) =>
        /\ last.ret = last.before
        /\ ReplayWALFile(last.wrote) = BatchAsWritten(last.entries, last.ret)
        /\ wals[1].nextSequence = last.before + 1

\* A successful batch of two entries appended to a WAL whose nextSequence had
\* already moved past 1.
C7_Witness ==
    /\ last.op = "AppendBatch"
    /\ Ok(last)
    /\ Len(last.entries) = 2
    /\ last.before > 1
    /\ last.wrote # <<>>

(***************************************************************************)
(* SpecMgr: one client of the storage manager: put, delete, rotate_wal,    *)
(* flush_memtables, close and reopen, each call run to its end.  The value *)
(* of the n-th write is the byte n, so every write is told from the rest.  *)
(***************************************************************************)
MaxWrites == 4
MaxWALFiles == 3

MgrKeys == {<<1>>, <<2>>}

MgrState == [wals |-> wals, disk |-> disk, m |-> mgr]

MgrSet(S) ==
    /\ wals' = S.wals
    /\ disk' = S.disk
    /\ mgr' = S.m
    /\ UNCHANGED <<hist, concVars, txVars, flushVars>>

Write(entryType, key, value, seq) ==
    [Type |-> entryType, Key |-> key, Value |-> value, SequenceNumber |-> seq]

MgrInit ==
    /\ wals = NewManager(Cfg(SyncBatch)).wals
    /\ disk = NewManager(Cfg(SyncBatch)).disk
    /\ mgr = NewManager(Cfg(SyncBatch)).m
    /\ writes = <<>>
    /\ hist = <<>>
    /\ last = NoCall
    /\ threads = NoThreads
    /\ rotation = NoRotation
    /\ NoFlush
    /\ NoTransactions

\* The state after a call of the manager returned r.
MgrReturn(op, r) ==
    /\ Len(r.S.wals) <= MaxWALFiles
    /\ MgrSet(r.S)
    /\ last' = [NoCall EXCEPT !.op = op, !.err = r.err, !.ret = r.value]

MgrWritten(r, entryType, key, value) ==
    writes' = IF Ok(r) THEN Append(writes, Write(entryType, key, value, r.value)) ELSE writes

MgrPut ==
    /\ mgr.open
    /\ Len(writes) < MaxWrites
    /\ \E key \in MgrKeys :
          /\ MgrReturn("Put", ManagerPut(MgrState, key, <<Len(writes) + 1>>))
          /\ MgrWritten(ManagerPut(MgrState, key, <<Len(writes) + 1>>),
                        OpTypePut, key, <<Len(writes) + 1>>)

MgrDelete ==
    /\ mgr.open
    /\ Len(writes) < MaxWrites
    /\ \E key \in MgrKeys :
          /\ MgrReturn("Delete", ManagerDelete(MgrState, key))
          /\ MgrWritten(ManagerDelete(MgrState, key), OpTypeDelete, key, <<>>)

MgrRotateWAL ==
    /\ mgr.open
    /\ Len(mgr.immutables) < MaxMemTables
    /\ MgrReturn("RotateWAL", MgrRet(RotateWAL(MgrState), 0, "nil"))
    /\ UNCHANGED writes

MgrFlushMemTables ==
    /\ mgr.open
    /\ MgrReturn("FlushMemTables", MgrRet(FlushMemTables(MgrState), 0, "nil"))
    /\ UNCHANGED writes

MgrClose ==
    /\ mgr.open
    /\ MgrReturn("Close", MgrRet(ManagerClose(MgrState), 0, "nil"))
    /\ UNCHANGED writes

MgrReopen ==
    /\ ~mgr.open
    /\ \E reuse \in BOOLEAN : MgrReturn("Open", ManagerOpen(MgrState, reuse))
    /\ UNCHANGED writes

MgrNext ==
    \/ MgrPut
    \/ MgrDelete
    \/ MgrRotateWAL
    \/ MgrFlushMemTables
    \/ MgrClose
    \/ MgrReopen

SpecMgr == MgrInit /\ [][MgrNext]_vars

\* The writes to key, in the order they were made.
WritesTo(key) == SelectSeq(writes, LAMBDA w : w.Key = key)

\* What get is to return for a write.
ResultOf(w) ==
    IF w.Type = OpTypeDelete THEN [value |-> <<>>, err |-> "ErrKeyNotFound"]
    ELSE [value |-> w.Value, err |-> "nil"]

\* C8: of two writes that held the transaction lock one after the other, the
\* second has the strictly larger WAL sequence number, across rotate_wal and
\* across close and reopen too.
C8_WriteSequenceIncreases ==
    \A i, j \in 1..Len(writes) :
        i < j => writes[i].SequenceNumber < writes[j].SequenceNumber

\* C1: get(k) returns the value of the write to k with the highest sequence
\* number, and KeyNotFound when that write is a delete or k was never written.
C1_GetReturnsHighestSequence ==
    mgr.open =>
        \A key \in MgrKeys :
            IF WritesTo(key) = <<>>
            THEN ManagerGet(MgrState, key).err = "ErrKeyNotFound"
            ELSE \E i \in 1..Len(WritesTo(key)) :
                    /\ \A j \in 1..Len(WritesTo(key)) :
                          WritesTo(key)[j].SequenceNumber <= WritesTo(key)[i].SequenceNumber
                    /\ ManagerGet(MgrState, key) = ResultOf(WritesTo(key)[i])

\* C2: after close and reopen over the same directories, get(k) is the last
\* committed value of k, and KeyNotFound when the last committed operation on
\* k was a delete.
C2_ReopenKeepsLastCommitted ==
    (mgr.open /\ last.op = "Open") =>
        \A key \in MgrKeys :
            WritesTo(key) # <<>> =>
                ManagerGet(MgrState, key) = ResultOf(WritesTo(key)[Len(WritesTo(key))])

(***************************************************************************)
(* SpecConc: writers in put and a thread in rotate_wal, interleaved at the *)
(* steps that touch shared state.  put loads the current WAL pointer,      *)
(* appends to that WAL (one step: Append holds the WAL mutex), then        *)
(* inserts into the current mutable memtable (one step: Put holds the      *)
(* memtable lock).  rotate_wal runs under the manager lock, which put does *)
(* not take.  A rotation that a full memtable triggers is one of the       *)
(* rotations that start here.  The key of a put is its writer and its      *)
(* number, so no put overwrites another.                                   *)
(***************************************************************************)
NumWriters == 2
PutsPerWriter == 1

Writers == 1..NumWriters

IdleThread == [pc |-> "idle", wal |-> 0, key |-> <<>>, value |-> <<>>, seq |-> 0,
               results |-> <<>>]

PutResult(th, err) == [key |-> th.key, value |-> th.value, seq |-> th.seq, err |-> err]

ConcInit ==
    /\ wals = NewManager(Cfg(SyncBatch)).wals
    /\ disk = NewManager(Cfg(SyncBatch)).disk
    /\ mgr = NewManager(Cfg(SyncBatch)).m
    /\ threads = [t \in Writers |-> IdleThread]
    /\ rotation = NoRotation
    /\ NoFlush
    /\ NoTransactions
    /\ writes = <<>>
    /\ hist = <<>>
    /\ last = NoCall

\* put: the current WAL pointer is loaded.
PutLoadWAL(t) ==
    /\ threads[t].pc = "idle"
    /\ Len(threads[t].results) < PutsPerWriter
    /\ threads' = [threads EXCEPT ![t].pc = "append",
                                  ![t].wal = mgr.wal,
                                  ![t].key = <<t, Len(threads[t].results) + 1>>,
                                  ![t].value = <<t>>,
                                  ![t].seq = 0]
    /\ UNCHANGED <<wals, disk, mgr, rotation, writes, hist, last, txVars, flushVars>>

\* put once Append on the loaded WAL returned r: an error is returned to the
\* caller, a sequence number goes on to the memtable.
PutAppended(t, r) ==
    /\ wals' = [wals EXCEPT ![threads[t].wal] = r.w]
    /\ disk' = [disk EXCEPT ![wals[threads[t].wal].file].data = r.file]
    /\ threads' = IF Ok(r)
                  THEN [threads EXCEPT ![t].pc = "insert", ![t].seq = r.ret]
                  ELSE [threads EXCEPT ![t].pc = "idle",
                                       ![t].results = Append(@, PutResult(threads[t], r.err))]

PutAppend(t) ==
    /\ threads[t].pc = "append"
    /\ PutAppended(t, WAL_Append([w |-> wals[threads[t].wal],
                                  file |-> disk[wals[threads[t].wal].file].data],
                                 OpTypePut, threads[t].key, threads[t].value))
    /\ UNCHANGED <<mgr, rotation, writes, hist, last, txVars, flushVars>>

\* put: the insert into the mutable memtable, and the return of success.
PutInsert(t) ==
    /\ threads[t].pc = "insert"
    /\ mgr' = [mgr EXCEPT !.memTable = MemTablePut(@, threads[t].key, threads[t].value,
                                                   threads[t].seq)]
    /\ threads' = [threads EXCEPT ![t].pc = "idle",
                                  ![t].results = Append(@, PutResult(threads[t], "nil"))]
    /\ UNCHANGED <<wals, disk, rotation, writes, hist, last, txVars, flushVars>>

RotationStep(S, pc, old) ==
    /\ wals' = S.wals
    /\ disk' = S.disk
    /\ mgr' = S.m
    /\ rotation' = [pc |-> pc, old |-> old]
    /\ UNCHANGED <<threads, writes, hist, last, txVars, flushVars>>

RotateMark ==
    /\ rotation.pc = "idle"
    /\ Len(wals) < MaxWALFiles
    /\ Len(mgr.immutables) < MaxMemTables
    /\ RotationStep(MarkRotating(MgrState), "marked", mgr.wal)

RotateSwap ==
    /\ rotation.pc = "marked"
    /\ RotationStep(SwapWAL(MgrState), "swapped", rotation.old)

RotateClose ==
    /\ rotation.pc = "swapped"
    /\ RotationStep(CloseOld(MgrState, rotation.old), "closed", rotation.old)

RotateImmutable ==
    /\ rotation.pc = "closed"
    /\ RotationStep(MarkImmutable(MgrState), "immutable", rotation.old)

RotatePush ==
    /\ rotation.pc = "immutable"
    /\ RotationStep(PushMemTable(MgrState), "idle", 0)

ConcNext ==
    \/ \E t \in Writers : PutLoadWAL(t)
    \/ \E t \in Writers : PutAppend(t)
    \/ \E t \in Writers : PutInsert(t)
    \/ RotateMark
    \/ RotateSwap
    \/ RotateClose
    \/ RotateImmutable
    \/ RotatePush

SpecConc == ConcInit /\ [][ConcNext]_vars

\* The entries held by the WAL segments: the files and the writers' buffers.
RECURSIVE InSegments(_)
InSegments(i) ==
    IF i = 0 THEN <<>>
    ELSE InSegments(i - 1)
         \o ReplayWALFile(disk[wals[i].file].data \o wals[i].buf)

\* C3: every put that returned either succeeded, with its entry in a WAL
\* segment and its value readable, or returned WALRotating.
C3_PutSucceedsOrRotating ==
    \A t \in Writers : \A n \in 1..Len(threads[t].results) :
        LET res == threads[t].results[n] IN
        \/ res.err = "ErrWALRotating"
        \/ /\ res.err = "nil"
           /\ \E j \in 1..Len(InSegments(Len(wals))) :
                 InSegments(Len(wals))[j] = Entry(OpTypePut, res.seq, res.key, res.value)
           /\ ManagerGet(MgrState, res.key) = [value |-> res.value, err |-> "nil"]

(***************************************************************************)
(* SpecTx: clients that begin, write in, commit and roll back              *)
(* transactions over one storage manager.  BeginTransaction is two steps   *)
(* for a read-only transaction (the object is built, RLock returns) and    *)
(* three for a read-write one (built, the writer announces itself, Lock    *)
(* returns).  Commit and rollback may be called again on a transaction     *)
(* that is over.  The value of a put is its client and the number of the   *)
(* write among all the writes made.                                        *)
(***************************************************************************)
NumClients == 2
MaxTx == 3
MaxTxWrites == 2

Clients == 1..NumClients

TxKeys == {<<1>>, <<2>>}

NoClientTx == [pc |-> "idle", tx |-> Released(NewTransaction(ReadOnly)),
               started |-> 0, nwrites |-> 0]

KeyNotFound == [value |-> <<>>, err |-> "ErrKeyNotFound"]

TxInit ==
    /\ wals = NewManager(Cfg(SyncBatch)).wals
    /\ disk = NewManager(Cfg(SyncBatch)).disk
    /\ mgr = NewManager(Cfg(SyncBatch)).m
    /\ txs = [c \in Clients |-> NoClientTx]
    /\ txLock = NewRWMutex
    /\ committed = [key \in TxKeys |-> KeyNotFound]
    /\ threads = NoThreads
    /\ rotation = NoRotation
    /\ NoFlush
    /\ writes = <<>>
    /\ hist = <<>>
    /\ last = NoCall

notTx == <<threads, rotation, writes, hist, last, flushVars>>

\* The transactions begun and the writes made so far, over the clients 1..c.
RECURSIVE TxStarted(_)
TxStarted(c) == IF c = 0 THEN 0 ELSE txs[c].started + TxStarted(c - 1)

RECURSIVE TxWrites(_)
TxWrites(c) == IF c = 0 THEN 0 ELSE txs[c].nwrites + TxWrites(c - 1)

\* BeginTransaction: the transaction object is built.
BeginCreate(c) ==
    /\ txs[c].pc \in {"idle", "open"}
    /\ ~txs[c].tx.active
    /\ TxStarted(NumClients) < MaxTx
    /\ \E mode \in {ReadOnly, ReadWrite} :
          txs' = [txs EXCEPT ![c].pc = "created", ![c].tx = NewTransaction(mode),
                             ![c].started = @ + 1]
    /\ UNCHANGED <<wals, disk, mgr, txLock, committed, notTx>>

\* BeginTransaction: RLock returns and the transaction is handed out.
BeginRLock(c) ==
    /\ txs[c].pc = "created"
    /\ LockMode(txs[c].tx.mode) = "RLock"
    /\ CanRLock(txLock)
    /\ txLock' = RLock(txLock, c)
    /\ txs' = [txs EXCEPT ![c].pc = "open", ![c].tx.hasReadLock = TRUE]
    /\ UNCHANGED <<wals, disk, mgr, committed, notTx>>

\* BeginTransaction: Lock is called; the writer waits for the readers.
BeginLock(c) ==
    /\ txs[c].pc = "created"
    /\ LockMode(txs[c].tx.mode) = "Lock"
    /\ CanLockBegin(txLock)
    /\ txLock' = LockBegin(txLock, c)
    /\ txs' = [txs EXCEPT ![c].pc = "waiting"]
    /\ UNCHANGED <<wals, disk, mgr, committed, notTx>>

\* BeginTransaction: Lock returns and the transaction is handed out.
BeginLocked(c) ==
    /\ txs[c].pc = "waiting"
    /\ CanLockAcquire(txLock, c)
    /\ txLock' = LockAcquire(txLock)
    /\ txs' = [txs EXCEPT ![c].pc = "open", ![c].tx.hasWriteLock = TRUE]
    /\ UNCHANGED <<wals, disk, mgr, committed, notTx>>

TxPut(c) ==
    /\ txs[c].pc = "open"
    /\ TxWrites(NumClients) < MaxTxWrites
    /\ \E key \in TxKeys :
          txs' = [txs EXCEPT ![c].tx = TxWrite(@, OpTypePut, key, <<c, TxWrites(NumClients) + 1>>),
                             ![c].nwrites = @ + 1]
    /\ UNCHANGED <<wals, disk, mgr, txLock, committed, notTx>>

TxDelete(c) ==
    /\ txs[c].pc = "open"
    /\ TxWrites(NumClients) < MaxTxWrites
    /\ \E key \in TxKeys :
          txs' = [txs EXCEPT ![c].tx = TxWrite(@, OpTypeDelete, key, <<>>),
                             ![c].nwrites = @ + 1]
    /\ UNCHANGED <<wals, disk, mgr, txLock, committed, notTx>>

\* What get returns for a key once the write set is committed.
AfterCommit(buffer, key) ==
    IF BufferGet(buffer, key) = <<>> THEN committed[key]
    ELSE IF BufferGet(buffer, key)[1].Type = OpTypeDelete THEN KeyNotFound
    ELSE [value |-> BufferGet(buffer, key)[1].Value, err |-> "nil"]

\* The state after commit or rollback of client c's transaction returned r.
TxEnded(c, r) ==
    /\ wals' = r.S.wals
    /\ disk' = r.S.disk
    /\ mgr' = r.S.m
    /\ txLock' = IF ~r.tx.active THEN ReleaseLock(txLock, txs[c].tx, c) ELSE txLock
    /\ txs' = [txs EXCEPT ![c].tx = r.tx]

\* commit returned r: a write set that was applied is now committed.
CommitReturn(c, r) ==
    /\ TxEnded(c, r)
    /\ committed' = IF txs[c].tx.active /\ txs[c].tx.mode = ReadWrite /\ r.err = "nil"
                    THEN [key \in TxKeys |-> AfterCommit(txs[c].tx.buffer, key)]
                    ELSE committed

Commit(c) ==
    /\ txs[c].pc = "open"
    /\ CommitReturn(c, TxCommit(txs[c].tx, MgrState))
    /\ UNCHANGED notTx

Rollback(c) ==
    /\ txs[c].pc = "open"
    /\ TxEnded(c, TxRollback(txs[c].tx, MgrState))
    /\ UNCHANGED <<committed, notTx>>

TxNext ==
    \/ \E c \in Clients : BeginCreate(c)
    \/ \E c \in Clients : BeginRLock(c)
    \/ \E c \in Clients : BeginLock(c)
    \/ \E c \in Clients : BeginLocked(c)
    \/ \E c \in Clients : TxPut(c)
    \/ \E c \in Clients : TxDelete(c)
    \/ \E c \in Clients : Commit(c)
    \/ \E c \in Clients : Rollback(c)

SpecTx == TxInit /\ [][TxNext]_vars

\* The clients whose transaction of a mode is open: handed out by
\* BeginTransaction and neither committed nor rolled back.
OpenTx(mode) ==
    {c \in Clients : txs[c].pc = "open" /\ txs[c].tx.active /\ txs[c].tx.mode = mode}

\* C9: at most one read-write transaction is open at a time, and while one is
\* open no read-only transaction is open.
C9_WriterExcludesAll ==
    /\ Cardinality(OpenTx(ReadWrite)) <= 1
    /\ OpenTx(ReadWrite) # {} => OpenTx(ReadOnly) = {}

\* A read-write transaction is open while another client's BeginTransaction
\* has built its transaction and waits for the lock.
C9_Witness ==
    \E c, d \in Clients :
        /\ c \in OpenTx(ReadWrite)
        /\ txs[d].pc = "created"
        /\ txs[c].started = 2

\* C10: the read path of the storage manager and the get of every other open
\* transaction return what the committed transactions wrote, whatever is
\* buffered in a transaction that is open or was rolled back; the get of the
\* transaction itself returns what it buffered for the key.
C10_BufferedWritesArePrivate ==
    /\ \A key \in TxKeys : ManagerGet(MgrState, key) = committed[key]
    /\ \A c \in Clients : \A key \in TxKeys :
          (txs[c].pc = "open" /\ txs[c].tx.active) =>
              TxGet(txs[c].tx, MgrState, key) = AfterCommit(txs[c].tx.buffer, key)

\* A read-write transaction is open with a put buffered for a key that no
\* committed transaction wrote, after the other client's only transaction, a
\* read-write one that had written, was rolled back.
C10_Witness ==
    \E c, d \in Clients : \E key \in TxKeys :
        /\ c # d
        /\ c \in OpenTx(ReadWrite)
        /\ BufferGet(txs[c].tx.buffer, key) # <<>>
        /\ BufferGet(txs[c].tx.buffer, key)[1].Type = OpTypePut
        /\ committed[key] = KeyNotFound
        /\ txs[d].started = 1
        /\ txs[d].pc = "open"
        /\ txs[d].tx.mode = ReadWrite
        /\ ~txs[d].tx.active
        /\ txs[d].nwrites > 0
        /\ txs[d].tx.buffer = NewBuffer

(***************************************************************************)
(* SpecSeq: one WAL under every call of its interface, in the three sync   *)
(* modes: the five append calls with sequence numbers at and around        *)
(* MaxSequenceNumber, UpdateNextSequence, SetRotating, SetActive, Sync and *)
(* Close.  The WAL starts as the storage manager starts it, NewWAL and     *)
(* then UpdateNextSequence with the number the recovery found.             *)
(* SetRotating is called on an active WAL and SetActive on a rotating one, *)
(* as the rotation does.  hist holds every call but those two, last is the *)
(* last of hist.                                                           *)
(***************************************************************************)
MaxSeqCalls == 2

\* The nextSequence the WAL starts with.
SeqStarts == {1, SequenceWarningThreshold, MaxSequenceNumber - 1}

\* The sequence numbers handed to AppendWithSequence and to
\* AppendBatchWithSequence.
SeqArgs == {1, SequenceWarningThreshold, MaxSequenceNumber - 1, MaxSequenceNumber}

SeqBatchArgs == {SequenceWarningThreshold, MaxSequenceNumber}

SeqEntry == Entry(OpTypePut, 0, <<1>>, <<7>>)

SeqBatches ==
    { <<Entry(OpTypePut, 0, <<2>>, <<5>>), Entry(OpTypeDelete, 0, <<3>>, <<>>)>>,
      <<>> }

\* A call as Call records it, with the status and the buffered bytes it found
\* and the nextSequence it left.
SeqCall(op, entries, seqArg, r, st) ==
    [op |-> op, entries |-> entries, seqArg |-> seqArg, ret |-> r.ret, err |-> r.err,
     before |-> st.w.nextSequence,
     wrote |-> SubSeq(r.file \o r.w.buf, Len(st.file \o st.w.buf) + 1,
                      Len(r.file \o r.w.buf)),
     status |-> st.w.status, buffered |-> Len(st.w.buf), after |-> r.w.nextSequence]

SeqInit ==
    /\ \E mode \in {SyncNone, SyncBatch, SyncImmediate} : \E nextSeq \in SeqStarts :
          wals = <<UpdateNextSequence(NewWAL(Cfg(mode), 1), nextSeq)>>
    /\ disk = <<File(<<>>)>>
    /\ hist = <<>>
    /\ last = NoCall
    /\ mgr = NoManager
    /\ writes = <<>>
    /\ threads = NoThreads
    /\ rotation = NoRotation
    /\ NoFlush
    /\ NoTransactions

\* A call that returned r.
SeqRecord(op, entries, seqArg, r) ==
    /\ Apply(1, r)
    /\ last' = SeqCall(op, entries, seqArg, r, St(1))
    /\ hist' = Append(hist, SeqCall(op, entries, seqArg, r, St(1)))

SeqAppend ==
    /\ Len(hist) < MaxSeqCalls
    /\ SeqRecord("Append", <<SeqEntry>>, 0,
                 WAL_Append(St(1), SeqEntry.Type, SeqEntry.Key, SeqEntry.Value))

SeqAppendWithSequence ==
    /\ Len(hist) < MaxSeqCalls
    /\ \E seq \in SeqArgs :
          SeqRecord("AppendWithSequence", <<SeqEntry>>, seq,
                    AppendWithSequence(St(1), SeqEntry.Type, SeqEntry.Key,
                                       SeqEntry.Value, seq))

SeqAppendBatch ==
    /\ Len(hist) < MaxSeqCalls
    /\ \E b \in SeqBatches : SeqRecord("AppendBatch", b, 0, AppendBatch(St(1), b))

SeqAppendBatchWithSequence ==
    /\ Len(hist) < MaxSeqCalls
    /\ \E b \in SeqBatches : \E seq \in SeqBatchArgs :
          SeqRecord("AppendBatchWithSequence", b, seq,
                    AppendBatchWithSequence(St(1), b, seq))

SeqAppendExactBytes ==
    /\ Len(hist) < MaxSeqCalls
    /\ SeqRecord("AppendExactBytes", <<SeqEntry>>, MaxSequenceNumber,
                 AppendExactBytes(St(1), RawRecord(SeqEntry, MaxSequenceNumber),
                                  MaxSequenceNumber))

SeqUpdateNextSequence ==
    /\ Len(hist) < MaxSeqCalls
    /\ SeqRecord("UpdateNextSequence", <<>>, MaxSequenceNumber,
                 Ret(UpdateNextSequence(wals[1], MaxSequenceNumber), St(1).file, 0, "nil"))

SeqSetRotating ==
    /\ wals[1].status = WALStatusActive
    /\ wals' = [wals EXCEPT ![1] = SetRotating(@)]
    /\ UNCHANGED <<disk, hist, last, mgrVars, concVars, txVars, flushVars>>

SeqSetActive ==
    /\ wals[1].status = WALStatusRotating
    /\ wals' = [wals EXCEPT ![1] = SetActive(@)]
    /\ UNCHANGED <<disk, hist, last, mgrVars, concVars, txVars, flushVars>>

SeqSync ==
    /\ Len(hist) < MaxSeqCalls
    /\ SeqRecord("Sync", <<>>, 0, WAL_Sync(St(1)))

SeqClose ==
    /\ Len(hist) < MaxSeqCalls
    /\ SeqRecord("Close", <<>>, 0, WAL_Close(St(1)))

SeqNext ==
    \/ SeqAppend
    \/ SeqAppendWithSequence
    \/ SeqAppendBatch
    \/ SeqAppendBatchWithSequence
    \/ SeqAppendExactBytes
    \/ SeqUpdateNextSequence
    \/ SeqSetRotating
    \/ SeqSetActive
    \/ SeqSync
    \/ SeqClose

SpecSeq == SeqInit /\ [][SeqNext]_vars

AppendCalls ==
    {"Append", "AppendWithSequence", "AppendBatch", "AppendBatchWithSequence",
     "AppendExactBytes"}

\* The call wrote nothing and left nextSequence alone.
NoEffect(c) == c.wrote = <<>> /\ c.after = c.before

\* C11: an append call that finds the status Rotating returns WALRotating, an
\* append call or a Sync that finds it Closed returns WALClosed, and in both
\* cases nothing is written and nextSequence is unchanged.
C11_StatusRejectsCalls ==
    \A n \in 1..Len(hist) :
        /\ (hist[n].op \in AppendCalls /\ hist[n].status = WALStatusRotating) =>
              hist[n].err = "ErrWALRotating" /\ NoEffect(hist[n])
        /\ (hist[n].op \in AppendCalls \cup {"Sync"} /\ hist[n].status = WALStatusClosed) =>
              hist[n].err = "ErrWALClosed" /\ NoEffect(hist[n])

\* A batch with entries is refused on a rotating WAL that holds the buffered
\* bytes of an Append that succeeded.
C11_Witness ==
    /\ Len(hist) = 2
    /\ hist[1].op = "Append"
    /\ Ok(hist[1])
    /\ hist[2].op = "AppendBatchWithSequence"
    /\ hist[2].entries # <<>>
    /\ hist[2].status = WALStatusRotating
    /\ hist[2].buffered > 0

\* Whether the entries a occur in b, in order.
RECURSIVE IsSubseq(_, _)
IsSubseq(a, b) ==
    IF a = <<>> THEN TRUE
    ELSE IF b = <<>> THEN FALSE
    ELSE IF Head(a) = Head(b) THEN IsSubseq(Tail(a), Tail(b))
    ELSE IsSubseq(a, Tail(b))

\* C12: once Close has returned nil the writer's buffer is empty and a replay
\* of the file delivers, in order, every entry whose append returned success,
\* in every sync mode and also when the WAL was marked Rotating.
C12_CloseKeepsAppended ==
    (last.op = "Close" /\ Ok(last)) =>
        /\ wals[1].buf = <<>>
        /\ IsSubseq(Written(hist), ReplayWALFile(disk[1].data))

\* Close returned nil on a WAL marked Rotating whose buffer held the bytes of
\* an append that had succeeded.
C12_Witness ==
    /\ last.op = "Close"
    /\ Ok(last)
    /\ last.status = WALStatusRotating
    /\ last.buffered > 0
    /\ Written(hist) # <<>>

\* What C13 says of a call c that found the WAL active, for the calls that
\* take a sequence number when batchGuard holds of them.
OverflowRule(c, batchGuard) ==
    /\ (c.op = "Append" /\ c.before >= MaxSequenceNumber) =>
          c.err = "ErrSequenceOverflow"
    /\ (c.op = "AppendWithSequence" /\ c.seqArg >= MaxSequenceNumber) =>
          c.err = "ErrSequenceOverflow"
    /\ (c.op = "AppendBatchWithSequence" /\ c.seqArg >= MaxSequenceNumber /\ batchGuard) =>
          c.err = "ErrSequenceOverflow"
    /\ c.err = "ErrSequenceOverflow" => NoEffect(c)
    /\ (c.op = "Append" /\ c.before = SequenceWarningThreshold) => Ok(c)

\* C13 as stated: on an active WAL Append fails with SequenceOverflow when
\* nextSequence >= MaxSequenceNumber, AppendWithSequence and
\* AppendBatchWithSequence fail with it when the sequence number they are given
\* is >= MaxSequenceNumber, a call that fails so writes nothing and leaves
\* nextSequence alone, and an Append at the warning threshold succeeds.
C13_OverflowIsRefused ==
    \A n \in 1..Len(hist) :
        hist[n].status = WALStatusActive => OverflowRule(hist[n], TRUE)

\* C13 amended: the same, for an AppendBatchWithSequence whose batch holds at
\* least one entry; the empty batch returns the sequence number it was given
\* and no error, whatever the number.
C13_OverflowIsRefusedNonEmpty ==
    \A n \in 1..Len(hist) :
        hist[n].status = WALStatusActive =>
            OverflowRule(hist[n], hist[n].entries # <<>>)

\* AppendBatchWithSequence is refused for a batch with entries and the number
\* MaxSequenceNumber, on an active WAL that holds buffered bytes.
C13_Witness ==
    /\ Len(hist) = 2
    /\ Ok(hist[1])
    /\ hist[2].op = "AppendBatchWithSequence"
    /\ hist[2].entries # <<>>
    /\ hist[2].seqArg = MaxSequenceNumber
    /\ hist[2].status = WALStatusActive
    /\ hist[2].buffered > 0
    /\ hist[2].err = "ErrSequenceOverflow"

\* C14: in every state of a WAL nextSequence < MaxSequenceNumber, whichever
\* calls were made.
C14_NextSequenceBelowMax == wals[1].nextSequence < MaxSequenceNumber

\* C15: AppendBatch of n entries on an active WAL fails with SequenceOverflow
\* whenever nextSequence + n exceeds MaxSequenceNumber.
C15_BatchOverflowCountsEntries ==
    \A n \in 1..Len(hist) :
        (/\ hist[n].op = "AppendBatch"
         /\ hist[n].status = WALStatusActive
         /\ hist[n].entries # <<>>
         /\ hist[n].before + Len(hist[n].entries) > MaxSequenceNumber) =>
            hist[n].err = "ErrSequenceOverflow"

WithSequenceCalls == {"AppendWithSequence", "AppendBatchWithSequence"}

MaxMemCalls == 3
MaxMemSeq == 2

MemKeys == {<<1>>, <<2>>}

MemSeqs == 0..MaxMemSeq

MemCalls == Len(writes) + Len(hist) + (IF mgr.memTable.immutable THEN 1 ELSE 0)

MemInit ==
    /\ mgr = NoManager
    /\ writes = <<>>
    /\ hist = <<>>
    /\ last = [op |-> "none", m |-> NewMemTable]
    /\ wals = <<>>
    /\ disk = <<>>
    /\ threads = NoThreads
    /\ rotation = NoRotation
    /\ NoFlush
    /\ NoTransactions

\* The state after a call handed the record e to the memtable, which is m now.
MemWritten(op, e, m) ==
    /\ mgr' = [mgr EXCEPT !.memTable = m]
    /\ writes' = Append(writes, [e |-> e, accepted |-> ~mgr.memTable.immutable])
    /\ last' = [op |-> op, m |-> mgr.memTable]
    /\ UNCHANGED <<wals, disk, hist, concVars, txVars, flushVars>>

MemPut ==
    /\ MemCalls < MaxMemCalls
    /\ \E key \in MemKeys : \E seqNum \in MemSeqs :
          MemWritten("Put", newEntry(key, <<MemCalls + 1>>, TypeValue, seqNum),
                     MemTablePut(mgr.memTable, key, <<MemCalls + 1>>, seqNum))

MemDelete ==
    /\ MemCalls < MaxMemCalls
    /\ \E seqNum \in MemSeqs :
          MemWritten("Delete", newEntry(<<1>>, <<>>, TypeDeletion, seqNum),
                     MemTableDelete(mgr.memTable, <<1>>, seqNum))

MemProcessWALEntry ==
    /\ MemCalls < MaxMemCalls
    /\ \E type \in {OpTypePut, OpTypeDelete} :
        MemWritten("ProcessWALEntry",
                   newEntry(<<2>>, IF type = OpTypePut THEN <<MemCalls + 1>> ELSE <<>>,
                            IF type = OpTypePut THEN TypeValue ELSE TypeDeletion, MaxMemSeq),
                   ProcessWALEntry(mgr.memTable,
                                   Entry(type, MaxMemSeq, <<2>>, <<MemCalls + 1>>)))

MemSetImmutable ==
    /\ MemCalls < MaxMemCalls
    /\ mgr' = [mgr EXCEPT !.memTable = SetImmutable(@)]
    /\ last' = [op |-> "SetImmutable", m |-> mgr.memTable]
    /\ UNCHANGED <<wals, disk, hist, writes, concVars, txVars, flushVars>>

MemNewIterator ==
    /\ MemCalls < MaxMemCalls
    /\ hist' = Append(hist, [it |-> MemTableNewIterator(mgr.memTable),
                             present |-> mgr.memTable.skipList,
                             mutable |-> ~IsImmutable(mgr.memTable)])
    /\ last' = [op |-> "NewIterator", m |-> mgr.memTable]
    /\ UNCHANGED <<wals, disk, mgr, writes, concVars, txVars, flushVars>>

MemNext ==
    \/ MemPut
    \/ MemDelete
    \/ MemProcessWALEntry
    \/ MemSetImmutable
    \/ MemNewIterator

SpecMem == MemInit /\ [][MemNext]_vars

\* The records of a key that the memtable accepted.
AcceptedOf(key) ==
    {n \in 1..Len(writes) : writes[n].accepted /\ writes[n].e.key = key}

\* The accepted records of a key with the highest sequence number among them.
NewestOf(key) ==
    {n \in AcceptedOf(key) : \A k \in AcceptedOf(key) : writes[k].e.seqNum <= writes[n].e.seqNum}

\* What Get is to return for a record.
GetOf(e) ==
    [value |-> IF e.valueType = TypeDeletion THEN <<>> ELSE e.value,
     found |-> TRUE, tombstone |-> e.valueType = TypeDeletion]

\* C17: for every key, Get returns what a record of the key with the highest
\* sequence number holds, the value of a Put or nil and found for a tombstone,
\* and not found when the memtable holds no record of the key; Contains is
\* true exactly when it holds one.
C17_GetReturnsNewest ==
    \A key \in MemKeys :
        /\ AcceptedOf(key) = {} =>
              MemTableGet(mgr.memTable, key) = [value |-> <<>>, found |-> FALSE, tombstone |-> FALSE]
        /\ AcceptedOf(key) # {} =>
              \E n \in NewestOf(key) : MemTableGet(mgr.memTable, key) = GetOf(writes[n].e)
        /\ MemTableContains(mgr.memTable, key) <=> AcceptedOf(key) # {}

\* A key holds a Put with a higher and, inserted after it, a tombstone with a
\* lower sequence number, and one more record.
C17_Witness ==
    /\ Len(writes) = 3
    /\ \A n \in 1..3 : writes[n].accepted /\ writes[n].e.key = <<1>>
    /\ writes[1].e.valueType = TypeValue
    /\ writes[2].e.valueType = TypeDeletion
    /\ writes[2].e.seqNum < writes[1].e.seqNum
    /\ writes[3].e.seqNum < writes[1].e.seqNum

\* C18: the immutable flag, once set, stays set through every call, and a
\* Put, Delete or ProcessWALEntry on an immutable memtable leaves its records,
\* ApproximateSize and GetNextSequenceNumber as they were.
C18_ImmutableIsFinal ==
    IsImmutable(last.m) =>
        /\ IsImmutable(mgr.memTable)
        /\ last.op \in {"Put", "Delete", "ProcessWALEntry"} =>
              /\ mgr.memTable.skipList = last.m.skipList
              /\ ApproximateSize(mgr.memTable) = ApproximateSize(last.m)
              /\ GetNextSequenceNumber(mgr.memTable) = GetNextSequenceNumber(last.m)

\* A Put with a sequence number above nextSeqNum was handed to a memtable that
\* holds a record and was made immutable.
C18_Witness ==
    /\ last.op = "Put"
    /\ IsImmutable(last.m)
    /\ last.m.skipList # <<>>
    /\ Len(writes) = 2
    /\ writes[2].e.seqNum > GetNextSequenceNumber(last.m)

\* C19: an iterator created on a mutable memtable yields, whenever it is
\* walked, exactly the records that were present when it was created, whatever
\* Put and Delete inserted afterwards and with whatever sequence numbers.
C19_IteratorSeesItsSnapshot ==
    \A i \in 1..Len(hist) :
        hist[i].mutable =>
            IteratorRecords(mgr.memTable.skipList, hist[i].it) = hist[i].present

\* C20: on a mutable memtable GetNextSequenceNumber is above the sequence
\* number of every record the memtable accepted.
C20_NextSequenceAboveAccepted ==
    \A n \in 1..Len(writes) :
        writes[n].accepted => writes[n].e.seqNum < GetNextSequenceNumber(mgr.memTable)

(***************************************************************************)
(* flush_memtables step by step.  dir is the SSTable directory: its files  *)
(* oldest first, each [records, final].  A file is the writer's temporary  *)
(* file until finish has written the footer, fsynced and renamed it; then  *)
(* it is final.  The manager's SSTable set holds the tables it reads.      *)
(***************************************************************************)
\* A writer that is given the values only and leaves the tombstones out.
WriteSSTable_DropsTombstones(S, dir) ==
    Append(dir, [records |-> SelectSeq(NewestPerKey(S.m.immutables[1].skipList),
                                       LAMBDA e : e.valueType # TypeDeletion),
                 final |-> FALSE])

\* A fresh writer over a temporary file, given the records of the oldest
\* immutable memtable in key order.
WriteSSTable(S, dir) ==
    Append(dir, [records |-> NewestPerKey(S.m.immutables[1].skipList), final |-> FALSE])

\* finish: footer, fsync and rename of the writer's file.
FinishSSTable(dir) == [dir EXCEPT ![Len(dir)].final = TRUE]

\* The table joins the SSTable set as its newest and its memtable leaves the
\* pool.
AddSSTable(S, dir) ==
    [S EXCEPT !.m.sstables = <<dir[Len(dir)].records>> \o @,
              !.m.immutables = Tail(@)]

\* The WAL segments the flushed memtables covered are deleted: every file but
\* the current WAL's.
DeleteWALSegments(S) ==
    [S EXCEPT !.disk = [i \in 1..Len(S.disk) |->
                           IF i = S.wals[S.m.wal].file THEN S.disk[i]
                           ELSE [data |-> <<>>, exists |-> FALSE]]]

\* The start of flush_memtables: a mutable memtable that holds records is
\* rotated out.
FlushStart(S) == IF S.m.memTable.skipList # <<>> THEN RotateWAL(S) ELSE S

\* The process dies: the memtables and the WAL objects' buffers are gone, the
\* files stay as they are.
Crash(S) == Closed(S)

\* A start reads the SSTable directory: temporary files are removed and the
\* final ones are the SSTable set, newest first.
FinalFiles(dir) == SelectSeq(dir, LAMBDA f : f.final)

LoadSSTables(S, dir) ==
    [S EXCEPT !.m.sstables = Reverse([i \in 1..Len(FinalFiles(dir)) |->
                                         FinalFiles(dir)[i].records])]

(***************************************************************************)
(* SpecFlush: one client of a storage manager whose WAL syncs every        *)
(* append: put, delete, rotate_wal, close and reopen run to their end,     *)
(* flush_memtables runs step by step, and the process can crash between    *)
(* any two steps.  hist is the calls made and the crashes, writes the      *)
(* writes that returned success.                                           *)
(***************************************************************************)
MaxFlushCalls == 7
MaxFlushWALs == 4

FlushKeys == {<<1>>}

FlushInit ==
    /\ wals = NewManager(Cfg(SyncImmediate)).wals
    /\ disk = NewManager(Cfg(SyncImmediate)).disk
    /\ mgr = NewManager(Cfg(SyncImmediate)).m
    /\ flush = [pc |-> "idle"]
    /\ sstDir = <<>>
    /\ writes = <<>>
    /\ hist = <<>>
    /\ last = NoCall
    /\ threads = NoThreads
    /\ rotation = NoRotation
    /\ NoTransactions

\* A call of the client, or a crash: its name, its key and what it returned.
FlushCall(op, key, err) == [op |-> op, key |-> key, err |-> err]

\* The state after a call of the manager returned r.
FlushReturn(op, key, r) ==
    /\ Len(r.S.wals) <= MaxFlushWALs
    /\ wals' = r.S.wals
    /\ disk' = r.S.disk
    /\ mgr' = r.S.m
    /\ last' = [NoCall EXCEPT !.op = op, !.err = r.err, !.ret = r.value]
    /\ hist' = Append(hist, FlushCall(op, key, r.err))
    /\ UNCHANGED <<concVars, txVars>>

FlushPut ==
    /\ mgr.open /\ flush.pc = "idle"
    /\ Len(hist) < MaxFlushCalls
    /\ \E key \in FlushKeys :
          /\ FlushReturn("Put", key, ManagerPut(MgrState, key, <<Len(writes) + 1>>))
          /\ MgrWritten(ManagerPut(MgrState, key, <<Len(writes) + 1>>),
                        OpTypePut, key, <<Len(writes) + 1>>)
    /\ UNCHANGED flushVars

FlushDelete ==
    /\ mgr.open /\ flush.pc = "idle"
    /\ Len(hist) < MaxFlushCalls
    /\ \E key \in FlushKeys :
          /\ FlushReturn("Delete", key, ManagerDelete(MgrState, key))
          /\ MgrWritten(ManagerDelete(MgrState, key), OpTypeDelete, key, <<>>)
    /\ UNCHANGED flushVars

FlushRotateWAL ==
    /\ mgr.open /\ flush.pc = "idle"
    /\ Len(hist) < MaxFlushCalls
    /\ Len(mgr.immutables) < MaxMemTables
    /\ FlushReturn("RotateWAL", <<>>, MgrRet(RotateWAL(MgrState), 0, "nil"))
    /\ UNCHANGED <<writes, flushVars>>

FlushClose ==
    /\ mgr.open /\ flush.pc = "idle"
    /\ Len(hist) < MaxFlushCalls
    /\ FlushReturn("Close", <<>>, MgrRet(ManagerClose(MgrState), 0, "nil"))
    /\ UNCHANGED <<writes, flushVars>>

FlushCrash ==
    /\ mgr.open
    /\ Len(hist) < MaxFlushCalls
    /\ FlushReturn("Crash", <<>>, MgrRet(Crash(MgrState), 0, "nil"))
    /\ flush' = [pc |-> "idle"]
    /\ UNCHANGED <<writes, sstDir>>

FlushReopen ==
    /\ ~mgr.open
    /\ Len(hist) < MaxFlushCalls
    /\ \E reuse \in BOOLEAN :
          FlushReturn("Open", <<>>, ManagerOpen(LoadSSTables(MgrState, sstDir), reuse))
    /\ sstDir' = FinalFiles(sstDir)
    /\ UNCHANGED <<writes, flush>>

\* flush_memtables is called.
FlushBegin ==
    /\ mgr.open /\ flush.pc = "idle"
    /\ Len(hist) < MaxFlushCalls
    /\ FlushReturn("FlushMemTables", <<>>, MgrRet(FlushStart(MgrState), 0, "nil"))
    /\ flush' = [pc |-> IF FlushStart(MgrState).m.immutables = <<>>
                        THEN "idle" ELSE "write"]
    /\ UNCHANGED <<writes, sstDir>>

FlushWrite ==
    /\ flush.pc = "write"
    /\ sstDir' = WriteSSTable(MgrState, sstDir)
    /\ flush' = [pc |-> "finish"]
    /\ UNCHANGED <<wals, disk, mgr, writes, hist, last, concVars, txVars>>

FlushFinish ==
    /\ flush.pc = "finish"
    /\ sstDir' = FinishSSTable(sstDir)
    /\ flush' = [pc |-> "add"]
    /\ UNCHANGED <<wals, disk, mgr, writes, hist, last, concVars, txVars>>

FlushAdd ==
    /\ flush.pc = "add"
    /\ mgr' = AddSSTable(MgrState, sstDir).m
    /\ flush' = [pc |-> IF AddSSTable(MgrState, sstDir).m.immutables = <<>>
                        THEN "delete" ELSE "write"]
    /\ UNCHANGED <<wals, disk, sstDir, writes, hist, last, concVars, txVars>>

FlushDeleteWAL ==
    /\ flush.pc = "delete"
    /\ disk' = DeleteWALSegments(MgrState).disk
    /\ flush' = [pc |-> "idle"]
    /\ UNCHANGED <<wals, mgr, sstDir, writes, hist, last, concVars, txVars>>

FlushNext ==
    \/ FlushPut
    \/ FlushDelete
    \/ FlushRotateWAL
    \/ FlushClose
    \/ FlushCrash
    \/ FlushReopen
    \/ FlushBegin
    \/ FlushWrite
    \/ FlushFinish
    \/ FlushAdd
    \/ FlushDeleteWAL

SpecFlush == FlushInit /\ [][FlushNext]_vars

\* hist ends with the calls q.
HistEnds(q) ==
    /\ Len(hist) >= Len(q)
    /\ SubSeq(hist, Len(hist) - Len(q) + 1, Len(hist)) = q

\* A successful put of key followed at once by a successful delete of key.
PutDelete(key) ==
    <<FlushCall("Put", key, "nil"), FlushCall("Delete", key, "nil")>>

Did(op) == FlushCall(op, <<>>, "nil")

\* The record of key in the newest table of the SSTable set is a tombstone: a
\* deletion marker with an empty value.
NewestTableHasTombstone(key) ==
    /\ mgr.sstables # <<>>
    /\ SkipListFind(mgr.sstables[1], key) # <<>>
    /\ SkipListFind(mgr.sstables[1], key)[1].valueType = TypeDeletion
    /\ SkipListFind(mgr.sstables[1], key)[1].value = <<>>

\* C21: after put(k, v), delete(k) and flush_memtables the SSTable the flush
\* wrote last holds a record of k that is a tombstone, and get(k) returns
\* KeyNotFound after the delete, after the flush and after a close and reopen.
C21_TombstoneIsFlushed ==
    \A key \in FlushKeys :
        /\ HistEnds(PutDelete(key)) =>
              ManagerGet(MgrState, key).err = "ErrKeyNotFound"
        /\ (HistEnds(PutDelete(key) \o <<Did("FlushMemTables")>>) /\ flush.pc = "idle") =>
              /\ NewestTableHasTombstone(key)
              /\ sstDir[Len(sstDir)] = [records |-> mgr.sstables[1], final |-> TRUE]
              /\ ManagerGet(MgrState, key).err = "ErrKeyNotFound"
        /\ HistEnds(PutDelete(key) \o <<Did("FlushMemTables"), Did("Close"), Did("Open")>>) =>
              /\ mgr.open
              /\ NewestTableHasTombstone(key)
              /\ ManagerGet(MgrState, key).err = "ErrKeyNotFound"

\* A value was put, deleted, flushed, and the manager closed and reopened.
C21_Witness ==
    /\ hist = PutDelete(<<1>>) \o <<Did("FlushMemTables"), Did("Close"), Did("Open")>>
    /\ mgr.open
    /\ mgr.memTable.skipList = <<>>
    /\ NewestTableHasTombstone(<<1>>)

\* The write w is held by a WAL segment that exists: replay delivers it.
InWAL(w) ==
    \E i \in 1..Len(ReplayWALDir(disk)) : ReplayWALDir(disk)[i] = w

\* The write w is held by a final file of the SSTable directory.
InSSTable(w) ==
    \E f \in 1..Len(sstDir) :
        /\ sstDir[f].final
        /\ \E j \in 1..Len(sstDir[f].records) :
              sstDir[f].records[j] =
                  newEntry(w.Key, w.Value,
                           IF w.Type = OpTypeDelete THEN TypeDeletion ELSE TypeValue,
                           w.SequenceNumber)

\* Every table of the SSTable set is a final file of the directory.
SetIsFinal ==
    \A t \in 1..Len(mgr.sstables) :
        \E f \in 1..Len(sstDir) : sstDir[f] = [records |-> mgr.sstables[t], final |-> TRUE]

\* C23: the tables of the SSTable set are final files, and at every step of
\* flush_memtables, and after a crash at any step, the last committed write of
\* every key is held by a WAL segment or by a final SSTable: no segment is
\* deleted while it alone holds a committed write.
C23_CommittedWritesRecoverable ==
    /\ SetIsFinal
    /\ \A key \in FlushKeys :
          WritesTo(key) # <<>> =>
              \/ InWAL(WritesTo(key)[Len(WritesTo(key))])
              \/ InSSTable(WritesTo(key)[Len(WritesTo(key))])

(***************************************************************************)
(* SpecRec: RecoverFromWAL over the segments of a WAL directory.  The      *)
(* entries are written by AppendWithSequence, which takes any sequence     *)
(* number, into as many as MaxSegments files; hist is the entries written, *)
(* in file order, and last the result of the recovery.  The value of the   *)
(* n-th entry is the byte n.                                               *)
(***************************************************************************)
MaxRecEntries == 3

RecKeys == {<<1>>, <<2>>}

RecSeqs == {1, 2}

\* The size of one record: with it as MemTableSize every entry fills a memtable.
OneEntrySize == EntrySize(newEntry(<<1>>, <<1>>, TypeValue, 1))

RecOptions ==
    {[MaxSequenceNumber |-> MaxUint64, MaxMemTables |-> n, MemTableSize |-> size] :
        n \in 1..MaxMemTables, size \in {OneEntrySize, MemTableSize}}

NoRecovery == [op |-> "none", opts |-> DefaultRecoveryOptions,
               rec |-> [memTables |-> <<>>, maxSeqNum |-> 0, err |-> "nil"]]

RecInit ==
    /\ wals = <<NewWAL(Cfg(SyncImmediate), 1)>>
    /\ disk = <<File(<<>>)>>
    /\ hist = <<>>
    /\ last = NoRecovery
    /\ mgr = NoManager
    /\ writes = <<>>
    /\ threads = NoThreads
    /\ rotation = NoRotation
    /\ NoFlush
    /\ NoTransactions

\* AppendWithSequence on the current segment returned r.
RecAppended(r, entryType, key, value, seq) ==
    /\ Ok(r)
    /\ wals' = [wals EXCEPT ![Len(wals)] = r.w]
    /\ disk' = [disk EXCEPT ![Len(disk)].data = r.file]
    /\ hist' = Append(hist, AsWritten(Entry(entryType, seq, key, value), seq))
    /\ last' = NoRecovery
    /\ UNCHANGED <<mgrVars, concVars, txVars, flushVars>>

RecAppend ==
    /\ Len(hist) < MaxRecEntries
    /\ \E key \in RecKeys, entryType \in {OpTypePut, OpTypeDelete}, seq \in RecSeqs :
          RecAppended(AppendWithSequence(St(Len(wals)), entryType, key,
                                         <<Len(hist) + 1>>, seq),
                      entryType, key, <<Len(hist) + 1>>, seq)

\* The segment, which holds an entry, is closed and the next one opened.
RecNewSegment ==
    /\ Len(disk) < MaxSegments
    /\ disk[Len(disk)].data # <<>>
    /\ wals' = Append([wals EXCEPT ![Len(wals)] = WAL_Close(St(Len(wals))).w],
                      NewWAL(Cfg(SyncImmediate), Len(disk) + 1))
    /\ disk' = Append([disk EXCEPT ![Len(disk)].data = WAL_Close(St(Len(wals))).file],
                      File(<<>>))
    /\ last' = NoRecovery
    /\ UNCHANGED <<hist, mgrVars, concVars, txVars, flushVars>>

RecRecover ==
    /\ last.op = "none"
    /\ \E opts \in RecOptions :
          last' = [op |-> "Recover", opts |-> opts, rec |-> RecoverFromWAL(disk, opts)]
    /\ UNCHANGED <<wals, disk, hist, mgrVars, concVars, txVars, flushVars>>

RecNext ==
    \/ RecAppend
    \/ RecNewSegment
    \/ RecRecover

SpecRec == RecInit /\ [][RecNext]_vars

\* The entries applied in order to one memtable.
RECURSIVE ApplyAll(_, _)
ApplyAll(m, entries) ==
    IF entries = <<>> THEN m
    ELSE ApplyAll(ProcessWALEntry(m, Head(entries)), Tail(entries))

\* The read of key through memtables, newest first: the first hit.
ReadNewestFirst(memTables, key) ==
    FirstHit(Reverse([i \in 1..Len(memTables) |-> memTables[i].skipList]), key)

\* C22: whatever Put and Delete entries the segments hold, a key read through
\* the recovered memtables newest first is what it is read from one memtable
\* to which the same entries were applied in file order.
C22_RecoveryEqualsDirectApply ==
    (last.op = "Recover" /\ last.rec.err = "nil") =>
        \A key \in RecKeys :
            ReadNewestFirst(last.rec.memTables, key)
                = SkipListFind(ApplyAll(NewMemTable, hist).skipList, key)

\* Whether some entry is handled while the current memtable, the count-th of
\* the list, has reached MemTableSize and the list holds MaxMemTables; size is
\* the size of the current memtable.
RECURSIVE PoolExceeded(_, _, _, _)
PoolExceeded(entries, size, count, opts) ==
    IF entries = <<>> THEN FALSE
    ELSE LET e == newEntry(Head(entries).Key, Head(entries).Value, TypeValue, 0) IN
         IF size >= opts.MemTableSize
         THEN \/ count >= opts.MaxMemTables
              \/ PoolExceeded(Tail(entries), EntrySize(e), count + 1, opts)
         ELSE PoolExceeded(Tail(entries), size + EntrySize(e), count, opts)

\* C28: RecoverFromWAL returns at most MaxMemTables memtables; it fails, and
\* returns none, exactly when an entry arrives while the current memtable has
\* reached MemTableSize and the list holds MaxMemTables; on success every
\* memtable but the last is immutable and the last is mutable.
C28_RecoveryBoundsMemTables ==
    last.op = "Recover" =>
        /\ Len(last.rec.memTables) <= last.opts.MaxMemTables
        /\ (last.rec.err # "nil") = PoolExceeded(hist, 0, 1, last.opts)
        /\ last.rec.err # "nil" => last.rec.memTables = <<>>
        /\ last.rec.err = "nil" =>
              /\ last.rec.memTables # <<>>
              /\ \A i \in 1..Len(last.rec.memTables) :
                    last.rec.memTables[i].immutable = (i < Len(last.rec.memTables))

\* A recovery that failed on the third entry with two full memtables.
C28_Witness ==
    /\ last.op = "Recover"
    /\ last.opts.MaxMemTables = 2
    /\ Len(hist) = 3
    /\ last.rec.err # "nil"
    /\ last.rec.memTables = <<>>

(***************************************************************************)
(* Specification SpecPtr: one goroutine loads the current WAL pointer and  *)
(* writes through it while another rotates the WAL step by step.  The      *)
(* pointer is an index into wals; 0 is nil.                                *)
(***************************************************************************)
PtrInit ==
    /\ wals = NewManager(Cfg(SyncBatch)).wals
    /\ disk = NewManager(Cfg(SyncBatch)).disk
    /\ mgr = NewManager(Cfg(SyncBatch)).m
    /\ threads = <<IdleThread>>
    /\ rotation = NoRotation
    /\ NoFlush
    /\ NoTransactions
    /\ writes = <<>>
    /\ hist = <<>>
    /\ last = NoCall

\* getWAL: the pointer as it is at this moment.
getWAL ==
    /\ last' = [op |-> "getWAL", wal |-> mgr.wal]
    /\ UNCHANGED <<wals, disk, hist, mgrVars, concVars, txVars, flushVars>>

PtrNext ==
    \/ getWAL
    \/ PutLoadWAL(1)
    \/ PutAppend(1)
    \/ PutInsert(1)
    \/ RotateMark
    \/ RotateSwap
    \/ RotateClose
    \/ RotateImmutable
    \/ RotatePush

SpecPtr == PtrInit /\ [][PtrNext]_vars

\* C24: the manager's current WAL pointer is never nil: in every state, the
\* states in the middle of a rotation included, it refers to a WAL object, and
\* so does every pointer getWAL returned or a writer loaded.
C24_WALPointerNeverNil ==
    /\ mgr.wal \in 1..Len(wals)
    /\ last.op = "getWAL" => last.wal \in 1..Len(wals)
    /\ \A t \in DOMAIN threads :
          threads[t].pc # "idle" => threads[t].wal \in 1..Len(wals)

\* getWAL returned the third WAL in the middle of the second rotation, right
\* after the swap, while a writer still holds the WAL before it.
C24_Witness ==
    /\ rotation.pc = "swapped"
    /\ rotation.old = 2
    /\ last.op = "getWAL"
    /\ last.wal = 3
    /\ threads[1].pc = "append"
    /\ threads[1].wal = 2

(***************************************************************************)
(* SSTable header validation.  The footer's offsets and sizes are uint64   *)
(* values, here numbers below UintLimit; a sum is computed modulo          *)
(* UintLimit, as the machine computes it.                                  *)
(***************************************************************************)
\* Size of the footer at the end of an SSTable file.
FooterSize == 4

FooterMagic == "FooterMagic"
CurrentVersion == "CurrentVersion"

\* a + b as the machine computes it, and whether the addition wrapped.
AddUint64(a, b) == (a + b) % UintLimit
AddWraps(a, b) == AddUint64(a, b) < a

\* Two byte regions [o1, o1 + s1) and [o2, o2 + s2), neither wrapping, overlap.
RegionsOverlap(o1, s1, o2, s2) == o1 < o2 + s2 /\ o2 < o1 + s1

\* The validation with sums that wrap silently.
validateHeaderStructure_Wrapping(ft, fileSize) ==
    LET footerStart == fileSize - FooterSize
        indexEnd    == AddUint64(ft.IndexOffset, ft.IndexSize)
        bloomEnd    == AddUint64(ft.BloomFilterOffset, ft.BloomFilterSize)
    IN  IF fileSize < FooterSize THEN "ErrInvalidHeader"
        ELSE IF ft.NumEntries = 0 THEN "ErrInvalidHeader"
        ELSE IF ft.IndexSize = 0 THEN "ErrInvalidHeader"
        ELSE IF indexEnd > footerStart THEN "ErrInvalidHeader"
        ELSE IF ft.BloomFilterOffset = 0 THEN "nil"
        ELSE IF ft.BloomFilterSize = 0 THEN "ErrInvalidHeader"
        ELSE IF bloomEnd > footerStart THEN "ErrInvalidHeader"
        ELSE IF ft.BloomFilterOffset < indexEnd /\ ft.IndexOffset < bloomEnd
             THEN "ErrInvalidHeader"
        ELSE "nil"

\* validateHeaderStructure(ft, fileSize): "nil" when the footer is accepted.
validateHeaderStructure(ft, fileSize) ==
    LET footerStart == fileSize - FooterSize
        indexEnd    == AddUint64(ft.IndexOffset, ft.IndexSize)
        bloomEnd    == AddUint64(ft.BloomFilterOffset, ft.BloomFilterSize)
    IN  IF fileSize < FooterSize THEN "ErrInvalidHeader"
        ELSE IF ft.NumEntries = 0 THEN "ErrInvalidHeader"
        ELSE IF ft.IndexSize = 0 THEN "ErrInvalidHeader"
        ELSE IF AddWraps(ft.IndexOffset, ft.IndexSize) THEN "ErrInvalidHeader"
        ELSE IF indexEnd > footerStart THEN "ErrInvalidHeader"
        ELSE IF ft.BloomFilterOffset = 0 THEN "nil"
        ELSE IF ft.BloomFilterSize = 0 THEN "ErrInvalidHeader"
        ELSE IF AddWraps(ft.BloomFilterOffset, ft.BloomFilterSize)
             THEN "ErrInvalidHeader"
        ELSE IF bloomEnd > footerStart THEN "ErrInvalidHeader"
        ELSE IF RegionsOverlap(ft.BloomFilterOffset, ft.BloomFilterSize,
                               ft.IndexOffset, ft.IndexSize)
             THEN "ErrInvalidHeader"
        ELSE "nil"

\* OpenReader(file): reads the footer from the last FooterSize bytes, verifies
\* magic and version and runs the header validation.
OpenReader(file) ==
    IF file.fileSize < FooterSize THEN [err |-> "ErrShortFile"]
    ELSE IF file.ft.Magic # FooterMagic THEN [err |-> "ErrBadMagic"]
    ELSE IF file.ft.Version # CurrentVersion THEN [err |-> "ErrBadVersion"]
    ELSE [err |-> validateHeaderStructure(file.ft, file.fileSize)]

(***************************************************************************)
(* Specification SpecHdr: a file with any footer is validated and opened.  *)
(***************************************************************************)
HdrOffsets == {0, 1, 4, 8, 12, 16, 20, MaxUint64}
HdrSizes   == {0, 1, 4, 8, 12, MaxUint64}
HdrFileSizes == {FooterSize - 1, FooterSize + 12, FooterSize + 20}

Footers ==
    [Magic : {FooterMagic, "other"}, Version : {CurrentVersion, "other"},
     IndexOffset : HdrOffsets, IndexSize : HdrSizes, NumEntries : {0, 1},
     BloomFilterOffset : HdrOffsets, BloomFilterSize : HdrSizes]

HdrInit ==
    /\ wals = <<>>
    /\ disk = <<>>
    /\ hist = <<>>
    /\ \E ft \in Footers, fileSize \in HdrFileSizes :
          last = [op |-> "file", ft |-> ft, fileSize |-> fileSize]
    /\ mgr = NoManager
    /\ writes = <<>>
    /\ threads = NoThreads
    /\ rotation = NoRotation
    /\ NoFlush
    /\ NoTransactions

HdrOpen ==
    /\ last.op = "file"
    /\ last' = [op |-> "OpenReader", ft |-> last.ft, fileSize |-> last.fileSize,
                valid |-> validateHeaderStructure(last.ft, last.fileSize),
                open |-> OpenReader([ft |-> last.ft, fileSize |-> last.fileSize])]
    /\ UNCHANGED <<wals, disk, hist, mgrVars, concVars, txVars, flushVars>>

HdrNext == HdrOpen

SpecHdr == HdrInit /\ [][HdrNext]_vars

\* The conditions of a sound footer, over the unbounded integers.
FooterIsSound(ft, fileSize) ==
    /\ ft.NumEntries > 0
    /\ ft.IndexSize > 0
    /\ ft.IndexOffset + ft.IndexSize <= fileSize - FooterSize
    /\ ft.BloomFilterOffset # 0 =>
          /\ ft.BloomFilterSize > 0
          /\ ft.BloomFilterOffset + ft.BloomFilterSize <= fileSize - FooterSize
          /\ \/ ft.BloomFilterOffset + ft.BloomFilterSize <= ft.IndexOffset
             \/ ft.IndexOffset + ft.IndexSize <= ft.BloomFilterOffset

\* C25: the header validation accepts a footer exactly when num_entries > 0,
\* index_size > 0, the index ends at or before the footer with the sum taken
\* without wraparound, and a Bloom filter with a nonzero offset has a nonzero
\* size, ends at or before the footer and does not overlap the index;
\* OpenReader fails on every file whose footer is rejected.
C25_HeaderValidation ==
    last.op = "OpenReader" =>
       /\ (last.valid = "nil") <=> FooterIsSound(last.ft, last.fileSize)
       /\ last.valid # "nil" => last.open.err # "nil"

\* A footer whose index sum wraps to a number below the footer's start, with
\* everything else in order, was rejected, and the file was not opened.
C25_Witness ==
    /\ last.op = "OpenReader"
    /\ last.ft.NumEntries > 0
    /\ last.ft.IndexSize > 0
    /\ last.ft.BloomFilterOffset = 0
    /\ last.ft.IndexOffset + last.ft.IndexSize >= UintLimit
    /\ AddUint64(last.ft.IndexOffset, last.ft.IndexSize) + FooterSize <= last.fileSize
    /\ last.ft.Magic = FooterMagic
    /\ last.ft.Version = CurrentVersion
    /\ last.valid = "ErrInvalidHeader"
    /\ last.open.err = "ErrInvalidHeader"

(***************************************************************************)
(* Specification SpecOp: the public methods of one WAL, called in any      *)
(* order and in any status, with entries of every op type, the types       *)
(* outside Put, Delete and Merge included.                                 *)
(***************************************************************************)
MaxOpCalls == 2

OpTypes == {OpTypePut, OpTypeDelete, OpTypeMerge, 0, OpTypeMerge + 1}

OpEntries == {Entry(t, 0, <<1>>, <<7>>) : t \in OpTypes}

OpBatches ==
    {<<e>> : e \in OpEntries}
       \cup {<<Entry(OpTypePut, 0, <<2>>, <<5>>), e>> : e \in OpEntries}

OpInit ==
    /\ \E mode \in {SyncNone, SyncBatch, SyncImmediate} :
          wals = <<NewWAL(Cfg(mode), 1)>>
    /\ disk = <<File(<<>>)>>
    /\ hist = <<>>
    /\ last = NoCall
    /\ mgr = NoManager
    /\ writes = <<>>
    /\ threads = NoThreads
    /\ rotation = NoRotation
    /\ NoFlush
    /\ NoTransactions

OpAppend ==
    /\ Len(hist) < MaxOpCalls
    /\ \E e \in OpEntries :
          SeqRecord("Append", <<e>>, 0, WAL_Append(St(1), e.Type, e.Key, e.Value))

OpAppendWithSequence ==
    /\ Len(hist) < MaxOpCalls
    /\ \E e \in OpEntries :
          SeqRecord("AppendWithSequence", <<e>>, wals[1].nextSequence,
                    AppendWithSequence(St(1), e.Type, e.Key, e.Value,
                                       wals[1].nextSequence))

OpAppendBatch ==
    /\ Len(hist) < MaxOpCalls
    /\ \E b \in OpBatches : SeqRecord("AppendBatch", b, 0, AppendBatch(St(1), b))

OpAppendBatchWithSequence ==
    /\ Len(hist) < MaxOpCalls
    /\ \E b \in OpBatches :
          SeqRecord("AppendBatchWithSequence", b, wals[1].nextSequence,
                    AppendBatchWithSequence(St(1), b, wals[1].nextSequence))

OpSync ==
    /\ Len(hist) < MaxOpCalls
    /\ SeqRecord("Sync", <<>>, 0, WAL_Sync(St(1)))

OpClose ==
    /\ Len(hist) < MaxOpCalls
    /\ SeqRecord("Close", <<>>, 0, WAL_Close(St(1)))

OpSetRotating ==
    /\ wals' = [wals EXCEPT ![1] = SetRotating(@)]
    /\ UNCHANGED <<disk, hist, last, mgrVars, concVars, txVars, flushVars>>

OpSetActive ==
    /\ wals' = [wals EXCEPT ![1] = SetActive(@)]
    /\ UNCHANGED <<disk, hist, last, mgrVars, concVars, txVars, flushVars>>

OpNext ==
    \/ OpAppend
    \/ OpAppendWithSequence
    \/ OpAppendBatch
    \/ OpAppendBatchWithSequence
    \/ OpSync
    \/ OpClose
    \/ OpSetRotating
    \/ OpSetActive

SpecOp == OpInit /\ [][OpNext]_vars

\* An append call on an active WAL one of whose entries has an op type outside
\* Put, Delete and Merge.
HasInvalidOpType(c) ==
    /\ c.op \in {"Append", "AppendWithSequence", "AppendBatch", "AppendBatchWithSequence"}
    /\ c.status = WALStatusActive
    /\ \E i \in 1..Len(c.entries) : ~ValidOpType(c.entries[i].Type)

\* C26: every append path rejects an entry whose op type is not Put, Delete or
\* Merge with ErrInvalidOpType, writes nothing and leaves nextSequence as it
\* was.
C26_InvalidOpTypeRejected ==
    \A i \in 1..Len(hist) :
       HasInvalidOpType(hist[i]) =>
          /\ hist[i].err = "ErrInvalidOpType"
          /\ hist[i].wrote = <<>>
          /\ hist[i].after = hist[i].before

\* C27: the status of a WAL only moves forward along Active, Rotating, Closed:
\* no step takes it back to Active or out of Closed.
C27_StatusMovesForward ==
    [][wals'[1].status >= wals[1].status]_vars

(***************************************************************************)
(* Specification SpecSync: appends in the three sync modes on a file whose *)
(* fsync succeeds or fails.                                                *)
(***************************************************************************)
MaxSyncCalls == 3

SyncEntries ==
    {Entry(OpTypePut, 0, <<1>>, <<7>>), Entry(OpTypeDelete, 0, <<2>>, <<>>),
     Entry(OpTypePut, 0, <<3>>, <<1, 2, 3, 4, 5, 6, 7, 8>>)}

SyncBatches ==
    {<<Entry(OpTypePut, 0, <<1>>, <<7>>)>>,
     <<Entry(OpTypePut, 0, <<1>>, <<7>>), Entry(OpTypePut, 0, <<2>>, <<5>>)>>}

\* A call with the number of file.Sync calls it made, the bytes counted since
\* the last sync when it began (pending) and when it returned (left), and the
\* number of bytes it wrote.
SyncCall(op, entries, r, st) ==
    [op |-> op, entries |-> entries, ret |-> r.ret, err |-> r.err,
     mode |-> st.w.cfg.WALSyncMode, syncErr |-> st.w.syncErr,
     fsyncs |-> r.w.fsyncs - st.w.fsyncs,
     pending |-> st.w.batchByteSize, left |-> r.w.batchByteSize,
     wrote |-> Len(r.file \o r.w.buf) - Len(st.file \o st.w.buf)]

SyncInit ==
    /\ \E mode \in {SyncNone, SyncBatch, SyncImmediate} : \E e \in {"nil", "EIO"} :
          wals = <<[NewWAL(Cfg(mode), 1) EXCEPT !.syncErr = e]>>
    /\ disk = <<File(<<>>)>>
    /\ hist = <<>>
    /\ last = NoCall
    /\ mgr = NoManager
    /\ writes = <<>>
    /\ threads = NoThreads
    /\ rotation = NoRotation
    /\ NoFlush
    /\ NoTransactions

SyncRecord(op, entries, r) ==
    /\ Apply(1, r)
    /\ last' = SyncCall(op, entries, r, St(1))
    /\ hist' = Append(hist, SyncCall(op, entries, r, St(1)))

SyncAppend ==
    /\ Len(hist) < MaxSyncCalls
    /\ \E e \in SyncEntries :
          SyncRecord("Append", <<e>>, WAL_Append(St(1), e.Type, e.Key, e.Value))

SyncAppendWithSequence ==
    /\ Len(hist) < MaxSyncCalls
    /\ \E e \in SyncEntries :
          SyncRecord("AppendWithSequence", <<e>>,
                     AppendWithSequence(St(1), e.Type, e.Key, e.Value,
                                        wals[1].nextSequence))

SyncAppendBatch ==
    /\ Len(hist) < MaxSyncCalls
    /\ \E b \in SyncBatches : SyncRecord("AppendBatch", b, AppendBatch(St(1), b))

SyncAppendBatchWithSequence ==
    /\ Len(hist) < MaxSyncCalls
    /\ \E b \in SyncBatches :
          SyncRecord("AppendBatchWithSequence", b,
                     AppendBatchWithSequence(St(1), b, wals[1].nextSequence))

SyncSync ==
    /\ Len(hist) < MaxSyncCalls
    /\ SyncRecord("Sync", <<>>, WAL_Sync(St(1)))

SyncNext ==
    \/ SyncAppend
    \/ SyncAppendWithSequence
    \/ SyncAppendBatch
    \/ SyncAppendBatchWithSequence
    \/ SyncSync

SpecSync == SyncInit /\ [][SyncNext]_vars

IsAppend(c) ==
    c.op \in {"Append", "AppendWithSequence", "AppendBatch", "AppendBatchWithSequence"}

\* The call had to fsync: always in Immediate mode, in Batch mode once the
\* bytes written since the last sync, its own included, reached WALSyncBytes.
SyncRequired(c) ==
    \/ c.mode = SyncImmediate
    \/ c.mode = SyncBatch /\ c.pending + c.wrote >= Cfg(SyncBatch).WALSyncBytes

EntryEncoding(e, seqNum) ==
    <<e.Type>> \o PutLE(seqNum, 8) \o PutLE(Len(e.Key), 4) \o e.Key
       \o (IF e.Type # OpTypeDelete THEN PutLE(Len(e.Value), 4) \o e.Value ELSE <<>>)

RECURSIVE ConcatPayloads(_)
ConcatPayloads(recs) ==
    IF recs = <<>> THEN <<>> ELSE Head(recs).payload \o ConcatPayloads(Tail(recs))

\* recs are the records of an entry with the encoding enc.
RecordsOfEntry(recs, enc) ==
    /\ \A i \in 1..Len(recs) : Len(recs[i].payload) <= MaxRecordSize
    /\ ConcatPayloads(recs) = enc
    /\ IF Len(enc) <= MaxRecordSize
       THEN /\ Len(recs) = 1
            /\ recs[1].type = RecordTypeFull
       ELSE /\ Len(recs) >= 2
            /\ recs[1].type = RecordTypeFirst
            /\ recs[Len(recs)].type = RecordTypeLast
            /\ recs[Len(recs)].payload # <<>>
            /\ \A i \in 2..(Len(recs) - 1) :
                  /\ recs[i].type = RecordTypeMiddle
                  /\ Len(recs[i].payload) = MaxRecordSize

\* C30: Append writes an entry whose encoding is at most MaxRecordSize bytes
\* as exactly one Full record, and a larger one as one First record, then
\* Middle records of exactly MaxRecordSize payload bytes, then one non-empty
\* Last record; no payload is longer than MaxRecordSize, the bytes written are
\* these records and nothing else, and the payloads put together are the
\* entry's encoding.
C30_FragmentsOfAnEntry ==
    (last.op = "Append" /\ Ok(last)) =>
        /\ RecordsOfEntry(ReadRecords(last.wrote),
                          EntryEncoding(last.entries[1], last.ret))
        /\ Len(last.wrote) = Len(EntryEncoding(last.entries[1], last.ret))
                                + HeaderSize * Len(ReadRecords(last.wrote))

\* An Append wrote a First, a full Middle and a Last record.
C30_Witness ==
    /\ last.op = "Append"
    /\ Ok(last)
    /\ Len(ReadRecords(last.wrote)) = 3
    /\ ReadRecords(last.wrote)[2].type = RecordTypeMiddle
    /\ Len(ReadRecords(last.wrote)[3].payload) < MaxRecordSize

(***************************************************************************)
(* Specification SpecFuzz: the body of FuzzPutGetDelete on a new memtable, *)
(* for every key, value and sequence number: Put(key, value, seqNum),      *)
(* Delete(key, seqNum + 1), Put(key, value, seqNum + 10), the sums         *)
(* computed as uint64.                                                     *)
(***************************************************************************)
FuzzKeys == {<<>>, <<1>>}
FuzzValues == {<<>>, <<7>>}
FuzzSeqs == 0..MaxUint64

FuzzInit ==
    /\ mgr = NoManager
    /\ writes = <<>>
    /\ hist = <<>>
    /\ \E key \in FuzzKeys, value \in FuzzValues, seqNum \in FuzzSeqs :
          last = [op |-> "NewMemTable", key |-> key, value |-> value,
                  seqNum |-> seqNum, m |-> NewMemTable]
    /\ wals = <<>>
    /\ disk = <<>>
    /\ threads = NoThreads
    /\ rotation = NoRotation
    /\ NoFlush
    /\ NoTransactions

FuzzPut ==
    /\ last.op = "NewMemTable"
    /\ last' = [last EXCEPT !.op = "Put",
                            !.m = MemTablePut(@, last.key, last.value, last.seqNum)]
    /\ UNCHANGED <<wals, disk, hist, mgrVars, concVars, txVars, flushVars>>

FuzzDelete ==
    /\ last.op = "Put"
    /\ last' = [last EXCEPT !.op = "Delete",
                            !.m = MemTableDelete(@, last.key, AddUint64(last.seqNum, 1))]
    /\ UNCHANGED <<wals, disk, hist, mgrVars, concVars, txVars, flushVars>>

FuzzPutAgain ==
    /\ last.op = "Delete"
    /\ last' = [last EXCEPT !.op = "PutAgain",
                            !.m = MemTablePut(@, last.key, last.value,
                                              AddUint64(last.seqNum, 10))]
    /\ UNCHANGED <<wals, disk, hist, mgrVars, concVars, txVars, flushVars>>

FuzzNext ==
    \/ FuzzPut
    \/ FuzzDelete
    \/ FuzzPutAgain

SpecFuzz == FuzzInit /\ [][FuzzNext]_vars

\* C31: for every key, value and uint64 sequence number s, the numbers at
\* which s + 1 or s + 10 wraps included, Get returns (nil, true) after
\* Put(k, v, s) and Delete(k, s + 1), and (v, true) after a further
\* Put(k, v, s + 10).
C31_FuzzPutGetDelete ==
    /\ last.op = "Delete" =>
          MemTableGet(last.m, last.key)
             = [value |-> <<>>, found |-> TRUE, tombstone |-> TRUE]
    /\ last.op = "PutAgain" =>
          MemTableGet(last.m, last.key)
             = [value |-> last.value, found |-> TRUE, tombstone |-> FALSE]

(***************************************************************************)
(* Specification SpecEnd: clients begin transactions and call commit and   *)
(* rollback on them any number of times, also after the transaction is     *)
(* over and while another transaction holds the lock, as the registry does *)
(* when it forces a rollback.  last is the last commit or rollback: the    *)
(* client, whether its transaction was still active, and the lock before   *)
(* and after the call.                                                     *)
(***************************************************************************)
EndInit ==
    /\ wals = NewManager(Cfg(SyncBatch)).wals
    /\ disk = NewManager(Cfg(SyncBatch)).disk
    /\ mgr = NewManager(Cfg(SyncBatch)).m
    /\ txs = [c \in Clients |-> NoClientTx]
    /\ txLock = NewRWMutex
    /\ committed = [key \in TxKeys |-> KeyNotFound]
    /\ threads = NoThreads
    /\ rotation = NoRotation
    /\ NoFlush
    /\ writes = <<>>
    /\ hist = <<>>
    /\ last = NoCall

EndCall(op, c, r) ==
    [op |-> op, c |-> c, err |-> r.err, tx |-> txs[c].tx,
     before |-> txLock, after |-> txLock']

EndCommit(c) ==
    /\ txs[c].pc = "open"
    /\ CommitReturn(c, TxCommit(txs[c].tx, MgrState))
    /\ last' = EndCall("Commit", c, TxCommit(txs[c].tx, MgrState))
    /\ UNCHANGED <<threads, rotation, writes, hist, flushVars>>

EndRollback(c) ==
    /\ txs[c].pc = "open"
    /\ TxEnded(c, TxRollback(txs[c].tx, MgrState))
    /\ last' = EndCall("Rollback", c, TxRollback(txs[c].tx, MgrState))
    /\ UNCHANGED <<committed, threads, rotation, writes, hist, flushVars>>

EndNext ==
    \/ \E c \in Clients : BeginCreate(c)
    \/ \E c \in Clients : BeginRLock(c)
    \/ \E c \in Clients : BeginLock(c)
    \/ \E c \in Clients : BeginLocked(c)
    \/ \E c \in Clients : EndCommit(c)
    \/ \E c \in Clients : EndRollback(c)

SpecEnd == EndInit /\ [][EndNext]_vars

\* The lock is held by the open transactions and by nothing else.
LockIsHeldByOpenTx ==
    /\ txLock.readers = OpenTx(ReadOnly)
    /\ txLock.locked <=> OpenTx(ReadWrite) # {}
    /\ txLock.locked => txLock.w \in OpenTx(ReadWrite)

\* C32: commit and rollback release the transaction lock exactly once: the
\* first of them gives up what the transaction held and nothing else, and a
\* further commit or rollback of the same transaction leaves the lock as it
\* is, whoever holds it by then.
C32_LockReleasedOnce ==
    /\ LockIsHeldByOpenTx
    /\ last.op \in {"Commit", "Rollback"} =>
          IF last.tx.active /\ last.err = "nil"
          THEN last.after = (IF last.tx.mode = ReadOnly
                             THEN [last.before EXCEPT !.readers = @ \ {last.c}]
                             ELSE [last.before EXCEPT !.w = 0, !.locked = FALSE])
          ELSE last.after = last.before

\* A rollback was called on a transaction that was over while the other
\* client's read-write transaction held the lock, and it still holds it.
C32_Witness ==
    /\ last.op = "Rollback"
    /\ ~last.tx.active
    /\ last.tx.mode = ReadWrite
    /\ last.before.locked
    /\ last.before.w # last.c
    /\ txLock.locked
    /\ last.before.w \in OpenTx(ReadWrite)

(***************************************************************************)
(* Specification SpecRace: Append taken in its three parts (the checks on  *)
(* entry, the write, maybeSync), all under the WAL mutex, while            *)
(* SetRotating, which takes no mutex, may store the status between any two *)
(* of them.  Close takes the mutex and runs between appends.  last is the  *)
(* append in flight, hist the appends that returned.                       *)
(***************************************************************************)
MaxRaceCalls == 2

\* Append up to the sequence-number check: the error it returns, or "nil".
AppendCheck(st, entryType) ==
    IF st.w.status = WALStatusClosed THEN "ErrWALClosed"
    ELSE IF st.w.status = WALStatusRotating THEN "ErrWALRotating"
    ELSE IF ~ValidOpType(entryType) THEN "ErrInvalidOpType"
    ELSE IF st.w.nextSequence >= MaxSequenceNumber THEN "ErrSequenceOverflow"
    ELSE "nil"

\* Append from the assignment of the sequence number to the write of the
\* record: ret is the sequence number of the entry.
AppendWrite(st, entryType, key, value) ==
    LET seqNum == st.w.nextSequence
        w1 == [st.w EXCEPT
                  !.overflowWarning = @ \/ seqNum >= SequenceWarningThreshold,
                  !.nextSequence = (seqNum + 1) % UintLimit]
        wr == writeEntry([w |-> w1, file |-> st.file], entryType, seqNum, key, value)
    IN  Ret(wr.w, wr.file, IF Ok(wr) THEN seqNum ELSE 0, wr.err)

\* Append from maybeSync to its return.
AppendFinish(st, seqNum) ==
    LET sy == maybeSync(st)
    IN  IF ~Ok(sy) THEN Ret(sy.w, sy.file, 0, sy.err)
        ELSE Ret(sy.w, sy.file, seqNum, "nil")

RaceEntries == {Entry(OpTypePut, 0, <<1>>, <<7>>), Entry(OpTypeDelete, 0, <<2>>, <<>>)}

NoAppend == [pc |-> "idle"]

RaceInit ==
    /\ \E mode \in {SyncNone, SyncBatch, SyncImmediate} :
          wals = <<NewWAL(Cfg(mode), 1)>>
    /\ disk = <<File(<<>>)>>
    /\ hist = <<>>
    /\ last = NoAppend
    /\ mgr = NoManager
    /\ writes = <<>>
    /\ threads = NoThreads
    /\ rotation = NoRotation
    /\ NoFlush
    /\ NoTransactions

\* The append of e that began with nextSequence = before and size bytes in
\* buffer and file returned ret and err.
RaceReturn(e, ret, err, before, size) ==
    /\ hist' = Append(hist, [op |-> "Append", entry |-> e, ret |-> ret, err |-> err,
                             before |-> before, after |-> wals'[1].nextSequence,
                             wrote |-> Len(disk'[1].data \o wals'[1].buf) - size])
    /\ last' = NoAppend

RaceAppendBegin ==
    /\ last.pc = "idle"
    /\ Len(hist) < MaxRaceCalls
    /\ UNCHANGED <<wals, disk, mgrVars, concVars, txVars, flushVars>>
    /\ \E e \in RaceEntries :
          IF AppendCheck(St(1), e.Type) = "nil"
          THEN /\ last' = [pc |-> "checked", entry |-> e, seqNum |-> 0,
                           before |-> wals[1].nextSequence,
                           size |-> Len(disk[1].data \o wals[1].buf)]
               /\ UNCHANGED hist
          ELSE RaceReturn(e, 0, AppendCheck(St(1), e.Type), wals[1].nextSequence,
                          Len(disk[1].data \o wals[1].buf))

RaceAppendWrite ==
    /\ last.pc = "checked"
    /\ Apply(1, AppendWrite(St(1), last.entry.Type, last.entry.Key, last.entry.Value))
    /\ IF Ok(AppendWrite(St(1), last.entry.Type, last.entry.Key, last.entry.Value))
       THEN /\ last' = [last EXCEPT !.pc = "written", !.seqNum = wals[1].nextSequence]
            /\ UNCHANGED hist
       ELSE RaceReturn(last.entry, 0,
                       AppendWrite(St(1), last.entry.Type, last.entry.Key,
                                   last.entry.Value).err,
                       last.before, last.size)

RaceAppendSync ==
    /\ last.pc = "written"
    /\ Apply(1, AppendFinish(St(1), last.seqNum))
    /\ RaceReturn(last.entry, AppendFinish(St(1), last.seqNum).ret,
                  AppendFinish(St(1), last.seqNum).err, last.before, last.size)

RaceSetRotating ==
    /\ wals[1].status = WALStatusActive
    /\ wals' = [wals EXCEPT ![1] = SetRotating(@)]
    /\ UNCHANGED <<disk, hist, last, mgrVars, concVars, txVars, flushVars>>

RaceClose ==
    /\ last.pc = "idle"
    /\ wals[1].status # WALStatusClosed
    /\ Apply(1, WAL_Close(St(1)))
    /\ UNCHANGED <<hist, last>>

RaceNext ==
    \/ RaceAppendBegin
    \/ RaceAppendWrite
    \/ RaceAppendSync
    \/ RaceSetRotating
    \/ RaceClose

SpecRace == RaceInit /\ [][RaceNext]_vars

\* C33: an Append that returned ErrWALRotating or ErrWALClosed added no byte
\* to buffer or file and left nextSequence as it found it, also when
\* SetRotating stored the status while the Append was under way.
C33_RefusedAppendWroteNothing ==
    \A i \in 1..Len(hist) :
       hist[i].err \in {"ErrWALRotating", "ErrWALClosed"} =>
          /\ hist[i].wrote = 0
          /\ hist[i].after = hist[i].before


(***************************************************************************)
(* SetImmutable against a Put or Delete that is under way.  Put and Delete *)
(* take m.mu, read the immutable flag and then insert; SetImmutable stores *)
(* the flag without taking m.mu; Get reads the flag and walks the skip     *)
(* list without a lock when it is set, under the read side of m.mu when it *)
(* is not.  threads[t] is the position of goroutine t in its call, last.mu *)
(* is m.mu, hist the calls that returned.                                  *)
(***************************************************************************)
MaxImmCalls == 3

ImmWriters == {1, 2}

ImmReaders == {3}

ImmEntries == {newEntry(<<1>>, <<7>>, TypeValue, 1), newEntry(<<1>>, <<>>, TypeDeletion, 2)}

\* Put and Delete after their immutability check: the insert, and nextSeqNum
\* raised to seqNum + 1 when seqNum is above it.
insertLocked(m, e) ==
    [m EXCEPT !.skipList = SkipListInsert(@, e),
              !.size = @ + EntrySize(e),
              !.nextSeqNum = IF e.seqNum > @ THEN (e.seqNum + 1) % UintLimit ELSE @]

ImmIdle == [pc |-> "idle"]

ImmInit ==
    /\ mgr = NoManager
    /\ threads = [t \in ImmWriters \union ImmReaders |-> ImmIdle]
    /\ last = [mu |-> NewRWMutex]
    /\ hist = <<>>
    /\ writes = <<>>
    /\ wals = <<>>
    /\ disk = <<>>
    /\ rotation = NoRotation
    /\ NoFlush
    /\ NoTransactions

ImmCalls == Len(hist) + Cardinality({t \in DOMAIN threads : threads[t].pc # "idle"})

\* Put or Delete: m.mu.Lock().
ImmLock(t) ==
    /\ threads[t].pc = "idle"
    /\ ImmCalls < MaxImmCalls
    /\ CanLockBegin(last.mu)
    /\ CanLockAcquire(LockBegin(last.mu, t), t)
    /\ last' = [last EXCEPT !.mu = LockAcquire(LockBegin(@, t))]
    /\ \E e \in ImmEntries : threads' = [threads EXCEPT ![t] = [pc |-> "locked", e |-> e]]
    /\ UNCHANGED <<wals, disk, hist, mgrVars, rotation, txVars, flushVars>>

\* Put or Delete: the immutability check, with the return when the flag is set.
ImmCheck(t) ==
    /\ threads[t].pc = "locked"
    /\ IF IsImmutable(mgr.memTable)
       THEN /\ threads' = [threads EXCEPT ![t] = ImmIdle]
            /\ last' = [last EXCEPT !.mu = Unlock(@)]
            /\ hist' = Append(hist, [op |-> "Put", e |-> threads[t].e, inserted |-> FALSE,
                                     immutable |-> TRUE, readers |-> {}])
       ELSE /\ threads' = [threads EXCEPT ![t].pc = "checked"]
            /\ UNCHANGED <<last, hist>>
    /\ UNCHANGED <<wals, disk, mgrVars, rotation, txVars, flushVars>>

\* Put or Delete: the insert and the return.  The call records whether the
\* flag was set when it inserted and which lock-free reads were under way.
ImmInsert(t) ==
    /\ threads[t].pc = "checked"
    /\ mgr' = [mgr EXCEPT !.memTable = insertLocked(@, threads[t].e)]
    /\ threads' = [threads EXCEPT ![t] = ImmIdle]
    /\ last' = [last EXCEPT !.mu = Unlock(@)]
    /\ hist' = Append(hist, [op |-> "Put", e |-> threads[t].e, inserted |-> TRUE,
                             immutable |-> IsImmutable(mgr.memTable),
                             readers |-> {r \in ImmReaders : threads[r].pc = "reading"}])
    /\ UNCHANGED <<wals, disk, writes, rotation, txVars, flushVars>>

\* SetImmutable: the store of the flag, whoever holds m.mu.
ImmSetImmutable ==
    /\ ~IsImmutable(mgr.memTable)
    /\ mgr' = [mgr EXCEPT !.memTable = SetImmutable(@)]
    /\ UNCHANGED <<wals, disk, hist, last, writes, concVars, txVars, flushVars>>

\* Get: the read of the flag; the read side of m.mu when it is not set.
ImmGetBegin(r) ==
    /\ threads[r].pc = "idle"
    /\ ImmCalls < MaxImmCalls
    /\ IF IsImmutable(mgr.memTable)
       THEN /\ threads' = [threads EXCEPT ![r] = [pc |-> "reading"]]
            /\ UNCHANGED last
       ELSE /\ CanRLock(last.mu)
            /\ threads' = [threads EXCEPT ![r] = [pc |-> "rlocked"]]
            /\ last' = [last EXCEPT !.mu = RLock(@, r)]
    /\ UNCHANGED <<wals, disk, hist, mgrVars, rotation, txVars, flushVars>>

\* Get: Find and the return.
ImmGetEnd(r) ==
    /\ threads[r].pc \in {"reading", "rlocked"}
    /\ threads' = [threads EXCEPT ![r] = ImmIdle]
    /\ last' = IF threads[r].pc = "rlocked" THEN [last EXCEPT !.mu = RUnlock(@, r)] ELSE last
    /\ hist' = Append(hist, [op |-> "Get", locked |-> threads[r].pc = "rlocked",
                             ret |-> MemTableGet(mgr.memTable, <<1>>)])
    /\ UNCHANGED <<wals, disk, mgrVars, rotation, txVars, flushVars>>

ImmNext ==
    \/ \E t \in ImmWriters : ImmLock(t)
    \/ \E t \in ImmWriters : ImmCheck(t)
    \/ \E t \in ImmWriters : ImmInsert(t)
    \/ ImmSetImmutable
    \/ \E r \in ImmReaders : ImmGetBegin(r)
    \/ \E r \in ImmReaders : ImmGetEnd(r)

SpecImm == ImmInit /\ [][ImmNext]_vars

\* C34: no Put or Delete inserts into the skip list once SetImmutable has
\* returned, so no insert takes place while the flag is set or while a Get
\* walks the list without a lock.
C34_NoInsertAfterSetImmutable ==
    \A i \in 1..Len(hist) :
       (hist[i].op = "Put" /\ hist[i].inserted) =>
          /\ ~hist[i].immutable
          /\ hist[i].readers = {}


(***************************************************************************)
(* Specification SpecMu: Append calls of several goroutines on one WAL.    *)
(* Append takes w.mu on entry and gives it up when it returns.  A call is  *)
(* split at every access to the WAL: the checks and the read of            *)
(* nextSequence, its increment, the write of each physical record, and     *)
(* maybeSync with the return.  threads[t] is the position of goroutine t,  *)
(* last.mu the goroutine that holds w.mu (0: nobody), hist the calls that  *)
(* returned.                                                               *)
(***************************************************************************)
MaxMuCalls == 3

Appenders == {1, 2}

MuEntries == {Entry(OpTypePut, 0, <<1>>, <<7>>), Entry(OpTypePut, 0, <<2>>, <<8, 8, 8>>),
              Entry(OpTypeDelete, 0, <<3>>, <<>>)}

\* sync.Mutex that never makes a caller wait.
MutexFree_Always(mu) == TRUE

\* sync.Mutex: Lock returns when nobody holds the mutex.
MutexFree(mu) == mu = 0

\* The physical records writeEntry writes for an entry, in order.
FragmentsOf(e, seqNum) ==
    LET wr == writeEntry([w |-> NewWAL(Cfg(SyncNone), 1), file |-> <<>>],
                         e.Type, seqNum, e.Key, e.Value)
    IN  ReadRecords(wr.file \o wr.w.buf)

MuIdle == [pc |-> "idle"]

MuInit ==
    /\ \E mode \in {SyncNone, SyncImmediate} : wals = <<NewWAL(Cfg(mode), 1)>>
    /\ disk = <<File(<<>>)>>
    /\ threads = [t \in Appenders |-> MuIdle]
    /\ last = [mu |-> 0]
    /\ hist = <<>>
    /\ mgr = NoManager
    /\ writes = <<>>
    /\ rotation = NoRotation
    /\ NoFlush
    /\ NoTransactions

MuCalls == Len(hist) + Cardinality({t \in Appenders : threads[t].pc # "idle"})

\* The call of goroutine t returned ret and err and gave up w.mu.
MuReturn(t, ret, err) ==
    /\ hist' = Append(hist, [op |-> "Append", t |-> t, entry |-> threads[t].e,
                             ret |-> ret, err |-> err])
    /\ threads' = [threads EXCEPT ![t] = MuIdle]
    /\ last' = [last EXCEPT !.mu = 0]

\* w.mu.Lock()
MuLock(t) ==
    /\ threads[t].pc = "idle"
    /\ MuCalls < MaxMuCalls
    /\ MutexFree(last.mu)
    /\ last' = [last EXCEPT !.mu = t]
    /\ \E e \in MuEntries :
          threads' = [threads EXCEPT ![t] = [pc |-> "locked", e |-> e, seqNum |-> 0,
                                             pending |-> <<>>]]
    /\ UNCHANGED <<wals, disk, hist, mgrVars, rotation, txVars, flushVars>>

\* The checks, then seqNum := w.nextSequence.
MuBegin(t) ==
    /\ threads[t].pc = "locked"
    /\ UNCHANGED <<wals, disk, mgrVars, rotation, txVars, flushVars>>
    /\ IF AppendCheck(St(1), threads[t].e.Type) = "nil"
       THEN /\ threads' = [threads EXCEPT ![t].pc = "read",
                                          ![t].seqNum = wals[1].nextSequence]
            /\ UNCHANGED <<hist, last>>
       ELSE MuReturn(t, 0, AppendCheck(St(1), threads[t].e.Type))

\* w.nextSequence++
MuIncrement(t) ==
    /\ threads[t].pc = "read"
    /\ wals' = [wals EXCEPT ![1].nextSequence = (@ + 1) % UintLimit,
                            ![1].overflowWarning =
                                @ \/ threads[t].seqNum >= SequenceWarningThreshold]
    /\ threads' = [threads EXCEPT ![t].pc = "write",
                                  ![t].pending = FragmentsOf(threads[t].e, threads[t].seqNum)]
    /\ UNCHANGED <<disk, hist, last, mgrVars, rotation, txVars, flushVars>>

\* The write of the next physical record of the entry.
MuWrite(t) ==
    /\ threads[t].pc = "write"
    /\ threads[t].pending # <<>>
    /\ LET r == writeRawRecord(St(1), Head(threads[t].pending).type,
                               Head(threads[t].pending).payload)
       IN  /\ wals' = [wals EXCEPT ![1] = r.w]
           /\ disk' = [disk EXCEPT ![1].data = r.file]
    /\ threads' = [threads EXCEPT ![t].pending = Tail(@)]
    /\ UNCHANGED <<hist, last, mgrVars, rotation, txVars, flushVars>>

\* maybeSync and the return.
MuFinish(t) ==
    /\ threads[t].pc = "write"
    /\ threads[t].pending = <<>>
    /\ LET r == AppendFinish(St(1), threads[t].seqNum)
       IN  /\ wals' = [wals EXCEPT ![1] = r.w]
           /\ disk' = [disk EXCEPT ![1].data = r.file]
           /\ MuReturn(t, r.ret, r.err)
    /\ UNCHANGED <<mgrVars, rotation, txVars, flushVars>>

MuNext ==
    \/ \E t \in Appenders : MuLock(t)
    \/ \E t \in Appenders : MuBegin(t)
    \/ \E t \in Appenders : MuIncrement(t)
    \/ \E t \in Appenders : MuWrite(t)
    \/ \E t \in Appenders : MuFinish(t)

SpecMu == MuInit /\ [][MuNext]_vars

\* The bytes of the log, written through or still in the buffer.
MuLog == disk[1].data \o wals[1].buf

\* The appends that returned a sequence number, in the order they returned.
MuAppended == SelectSeq(hist, LAMBDA c : c.err = "nil")

\* C35: Append calls of several goroutines on one WAL return distinct
\* sequence numbers, and the log holds their records whole and in increasing
\* sequence order: when no call is under way, the log reads back as exactly
\* the entries appended, each with the sequence number its call returned.
C35_ConcurrentAppendsSerialized ==
    /\ \A i, j \in 1..Len(MuAppended) :
          i < j => MuAppended[i].ret < MuAppended[j].ret
    /\ (\A t \in Appenders : threads[t].pc = "idle") =>
          /\ Len(ReplayWALFile(MuLog)) = Len(MuAppended)
          /\ \A i \in 1..Len(MuAppended) :
                ReplayWALFile(MuLog)[i] =
                   [MuAppended[i].entry EXCEPT !.SequenceNumber = MuAppended[i].ret]
          /\ Len(MuLog) = wals[1].bytesWritten

\* Every goroutine appended, one of them an entry of more than one record.
C35_Witness ==
    /\ \A t \in Appenders : threads[t].pc = "idle"
    /\ Len(MuAppended) = MaxMuCalls
    /\ \A t \in Appenders : \E i \in 1..Len(MuAppended) : MuAppended[i].t = t
    /\ \E i \in 1..Len(MuAppended) : Len(MuAppended[i].entry.Value) > 1
    /\ Len(ReadRecords(MuLog)) > MaxMuCalls


(***************************************************************************)
(* Specification SpecMono: the six calls that write nextSequence, on one   *)
(* active WAL, with sequence-number arguments from 0 to the largest uint64.*)
(* The WAL starts as the storage manager starts it, NewWAL and then        *)
(* UpdateNextSequence.  hist holds the calls, last is the last of them.    *)
(***************************************************************************)
MaxMonoCalls == 2

MonoStarts == {1, MaxSequenceNumber - 1}

MonoArgs == {0, 2, MaxSequenceNumber - 1, MaxSequenceNumber, MaxUint64}

MonoBatch == <<Entry(OpTypePut, 0, <<2>>, <<5>>), Entry(OpTypeDelete, 0, <<3>>, <<>>)>>

MonoInit ==
    /\ \E nextSeq \in MonoStarts :
          wals = <<UpdateNextSequence(NewWAL(Cfg(SyncNone), 1), nextSeq)>>
    /\ disk = <<File(<<>>)>>
    /\ hist = <<>>
    /\ last = NoCall
    /\ mgr = NoManager
    /\ writes = <<>>
    /\ threads = NoThreads
    /\ rotation = NoRotation
    /\ NoFlush
    /\ NoTransactions

MonoAppend ==
    /\ Len(hist) < MaxMonoCalls
    /\ SeqRecord("Append", <<SeqEntry>>, 0,
                 WAL_Append(St(1), SeqEntry.Type, SeqEntry.Key, SeqEntry.Value))

MonoAppendWithSequence ==
    /\ Len(hist) < MaxMonoCalls
    /\ \E seq \in MonoArgs :
          SeqRecord("AppendWithSequence", <<SeqEntry>>, seq,
                    AppendWithSequence(St(1), SeqEntry.Type, SeqEntry.Key,
                                       SeqEntry.Value, seq))

MonoAppendBatch ==
    /\ Len(hist) < MaxMonoCalls
    /\ SeqRecord("AppendBatch", MonoBatch, 0, AppendBatch(St(1), MonoBatch))

MonoAppendBatchWithSequence ==
    /\ Len(hist) < MaxMonoCalls
    /\ \E seq \in MonoArgs :
          SeqRecord("AppendBatchWithSequence", MonoBatch, seq,
                    AppendBatchWithSequence(St(1), MonoBatch, seq))

MonoAppendExactBytes ==
    /\ Len(hist) < MaxMonoCalls
    /\ \E seq \in MonoArgs :
          SeqRecord("AppendExactBytes", <<SeqEntry>>, seq,
                    AppendExactBytes(St(1), RawRecord(SeqEntry, seq), seq))

MonoUpdateNextSequence ==
    /\ Len(hist) < MaxMonoCalls
    /\ \E seq \in MonoArgs :
          SeqRecord("UpdateNextSequence", <<>>, seq,
                    Ret(UpdateNextSequence(wals[1], seq), St(1).file, 0, "nil"))

MonoNext ==
    \/ MonoAppend
    \/ MonoAppendWithSequence
    \/ MonoAppendBatch
    \/ MonoAppendBatchWithSequence
    \/ MonoAppendExactBytes
    \/ MonoUpdateNextSequence

SpecMono == MonoInit /\ [][MonoNext]_vars

\* C36: no call of Append, AppendWithSequence, AppendBatch,
\* AppendBatchWithSequence, AppendExactBytes or UpdateNextSequence leaves
\* nextSequence below what it was, whatever sequence number it is given.
C36_NextSequenceNeverDecreases ==
    \A i \in 1..Len(hist) : hist[i].after >= hist[i].before


(***************************************************************************)
(* Specification SpecRaw: AppendExactBytes with raw records of every       *)
(* shape, on a WAL that is active, rotating or closed, in the three sync   *)
(* modes.  hist holds the calls of AppendExactBytes.                       *)
(***************************************************************************)
MaxRawCalls == 2

\* A record header for a payload, declaring length payload bytes.
RawHeader(payload, length) ==
    PutLE(ChecksumIEEE(payload), 4) \o PutLE(length, 2) \o <<RecordTypeFull>>

\* The raw records handed to AppendExactBytes: no bytes; fewer bytes than a
\* header; a header that declares more, and one that declares fewer, payload
\* bytes than follow; a header alone that declares a payload of length 0; a
\* payload of one byte; a well-formed record of an entry.
RawInputs ==
    { <<>>,
      SubSeq(RawHeader(<<>>, 0), 1, HeaderSize - 1),
      RawHeader(<<1, 2>>, 5) \o <<1, 2>>,
      RawHeader(<<1, 2>>, 1) \o <<1, 2>>,
      RawHeader(<<>>, 0),
      RawHeader(<<OpTypePut>>, 1) \o <<OpTypePut>>,
      RawRecord(Entry(OpTypePut, 0, <<3>>, <<8>>), 2) }

RawSeqs == {0, 2}

\* The record passes the two checks of AppendExactBytes.
RawWellSized(raw) ==
    /\ Len(raw) >= HeaderSize
    /\ Len(raw) = HeaderSize + GetLE(Slice(raw, 4, 6))

RawInit ==
    /\ \E mode \in {SyncNone, SyncBatch, SyncImmediate} :
          wals = <<NewWAL(Cfg(mode), 1)>>
    /\ disk = <<File(<<>>)>>
    /\ hist = <<>>
    /\ last = NoCall
    /\ mgr = NoManager
    /\ writes = <<>>
    /\ threads = NoThreads
    /\ rotation = NoRotation
    /\ NoFlush
    /\ NoTransactions

RawAppendExactBytes ==
    /\ Len(hist) < MaxRawCalls
    /\ \E raw \in RawInputs : \E seqNum \in RawSeqs :
          LET r == AppendExactBytes(St(1), raw, seqNum)
          IN  /\ Apply(1, r)
              /\ hist' = Append(hist, [raw |-> raw, seqArg |-> seqNum, ret |-> r.ret,
                                       err |-> r.err, status |-> wals[1].status,
                                       before |-> wals[1].nextSequence,
                                       after |-> r.w.nextSequence,
                                       wrote |-> SubSeq(r.file \o r.w.buf,
                                                        Len(St(1).file \o wals[1].buf) + 1,
                                                        Len(r.file \o r.w.buf))])
              /\ UNCHANGED last

RawSetRotating ==
    /\ wals[1].status = WALStatusActive
    /\ wals' = [wals EXCEPT ![1] = SetRotating(@)]
    /\ UNCHANGED <<disk, hist, last, mgrVars, concVars, txVars, flushVars>>

RawClose ==
    /\ wals[1].status # WALStatusClosed
    /\ Apply(1, WAL_Close(St(1)))
    /\ UNCHANGED <<hist, last>>

RawNext ==
    \/ RawAppendExactBytes
    \/ RawSetRotating
    \/ RawClose

SpecRaw == RawInit /\ [][RawNext]_vars

\* C37: AppendExactBytes returns normally for every input: a record shorter
\* than a header, or whose length is not the header plus the payload length
\* it declares, is refused with nothing written and nextSequence as it was;
\* on an active WAL every other record, one of declared payload length 0
\* included, is written byte for byte, and the call does not crash.
C37_ExactBytesNeverCrashes ==
    \A i \in 1..Len(hist) :
       /\ hist[i].err # "panic"
       /\ ~RawWellSized(hist[i].raw) =>
             /\ hist[i].err # "nil"
             /\ hist[i].wrote = <<>>
             /\ hist[i].after = hist[i].before
       /\ (RawWellSized(hist[i].raw) /\ hist[i].status = WALStatusActive) =>
             hist[i].wrote = hist[i].raw


(***************************************************************************)
(* Specification SpecObs: the notifications of Append and AppendBatch.     *)
(* Both calls notify the registered observers after the records are        *)
(* written and before maybeSync.  The WAL has one observer; file.Sync      *)
(* succeeds or fails with EIO for the whole run; SetRotating and Close     *)
(* take the WAL out of the active state.  hist holds the append calls,     *)
(* each with the notifications the observer received during the call.      *)
(***************************************************************************)
MaxObsCalls == 2

\* What the observer receives from Append: OnWALEntryWritten with the entry,
\* once the checks passed and the entry was written.
AppendNotifies(st, entryType, key, value) ==
    IF AppendCheck(st, entryType) = "nil" /\ Ok(AppendWrite(st, entryType, key, value))
    THEN <<[event |-> "OnWALEntryWritten",
            seq |-> AppendWrite(st, entryType, key, value).ret]>>
    ELSE <<>>

\* What the observer receives from AppendBatch: OnWALBatchWritten with the
\* batch's sequence number, once every entry of the batch was written.
AppendBatchNotifies(st, entries) ==
    IF /\ st.w.status = WALStatusActive
       /\ Len(entries) > 0
       /\ st.w.nextSequence < MaxSequenceNumber
       /\ Ok(writeBatchEntries(EnsureBatchSpace(st, BatchTotalSize(entries)), entries,
                               st.w.nextSequence))
    THEN <<[event |-> "OnWALBatchWritten", seq |-> st.w.nextSequence]>>
    ELSE <<>>

ObsInit ==
    /\ \E mode \in {SyncNone, SyncBatch, SyncImmediate} : \E e \in {"nil", "EIO"} :
          wals = <<[NewWAL(Cfg(mode), 1) EXCEPT !.syncErr = e]>>
    /\ disk = <<File(<<>>)>>
    /\ hist = <<>>
    /\ last = NoCall
    /\ mgr = NoManager
    /\ writes = <<>>
    /\ threads = NoThreads
    /\ rotation = NoRotation
    /\ NoFlush
    /\ NoTransactions

\* An append call that returned r, during which the observer received
\* notified.
ObsRecord(op, entries, r, notified) ==
    /\ Apply(1, r)
    /\ hist' = Append(hist, [op |-> op, entries |-> entries, ret |-> r.ret,
                             err |-> r.err, notified |-> notified])
    /\ UNCHANGED last

ObsAppend ==
    /\ Len(hist) < MaxObsCalls
    /\ \E e \in SyncEntries :
          ObsRecord("Append", <<e>>, WAL_Append(St(1), e.Type, e.Key, e.Value),
                    AppendNotifies(St(1), e.Type, e.Key, e.Value))

ObsAppendBatch ==
    /\ Len(hist) < MaxObsCalls
    /\ \E b \in SyncBatches \union {<<>>} :
          ObsRecord("AppendBatch", b, AppendBatch(St(1), b), AppendBatchNotifies(St(1), b))

ObsSetRotating ==
    /\ wals[1].status = WALStatusActive
    /\ wals' = [wals EXCEPT ![1] = SetRotating(@)]
    /\ UNCHANGED <<disk, hist, last, mgrVars, concVars, txVars, flushVars>>

ObsClose ==
    /\ wals[1].status # WALStatusClosed
    /\ wals[1].fsyncs < MaxObsCalls
    /\ Apply(1, WAL_Close(St(1)))
    /\ UNCHANGED <<hist, last>>

ObsNext ==
    \/ ObsAppend
    \/ ObsAppendBatch
    \/ ObsSetRotating
    \/ ObsClose

SpecObs == ObsInit /\ [][ObsNext]_vars

\* C38: the observers receive OnWALEntryWritten or OnWALBatchWritten from an
\* Append or AppendBatch only if the call returns success: a call that
\* returned an error has notified no observer.
C38_NotifiedOnlyOnSuccess ==
    \A i \in 1..Len(hist) : hist[i].err # "nil" => hist[i].notified = <<>>


(***************************************************************************)
(* Specification SpecStats: GetTransactionStats while clients begin,       *)
(* commit and roll back.  BeginTransaction adds 1 to txStarted,            *)
(* IncrementTxCompleted to txCompleted and IncrementTxAborted to           *)
(* txAborted, each in one atomic step; a transaction is committed or       *)
(* rolled back at most once.  GetTransactionStats loads the three          *)
(* counters for the map and then loads them again, one after the other,    *)
(* for tx_active.  last holds the counters, txs the clients, threads[1]    *)
(* the call of GetTransactionStats under way, hist the maps returned.      *)
(***************************************************************************)
MaxStatTx == 3
MaxStatCalls == 2

NewCounters == [txStarted |-> 0, txCompleted |-> 0, txAborted |-> 0]

SubUint64(a, b) == (a - b + UintLimit) % UintLimit

\* txStarted - txCompleted - txAborted, as uint64.
ActiveOf(started, completed, aborted) == SubUint64(SubUint64(started, completed), aborted)

\* The counter that the n-th load of GetTransactionStats reads.
StatsLoadOrder ==
    <<"txStarted", "txCompleted", "txAborted", "txStarted", "txCompleted", "txAborted">>

\* The map GetTransactionStats returns from the six values it loaded.
StatsMap(loads) ==
    [tx_started |-> loads[1], tx_completed |-> loads[2], tx_aborted |-> loads[3],
     tx_active |-> ActiveOf(loads[4], loads[5], loads[6])]

StatsIdle == [pc |-> "idle", loads |-> <<>>, seen |-> {}]

StatsInit ==
    /\ last = NewCounters
    /\ txs = [c \in Clients |-> "idle"]
    /\ threads = <<StatsIdle>>
    /\ hist = <<>>
    /\ txLock = NewRWMutex
    /\ committed = <<>>
    /\ wals = <<>>
    /\ disk = <<>>
    /\ mgr = NoManager
    /\ writes = <<>>
    /\ rotation = NoRotation
    /\ NoFlush

\* The counters became k: a call of GetTransactionStats under way has one
\* more instant, with its number of transactions neither committed nor
\* rolled back.
StatsCount(k) ==
    /\ last' = k
    /\ threads' = IF threads[1].pc = "idle" THEN threads
                  ELSE [threads EXCEPT ![1].seen =
                           @ \union {ActiveOf(k.txStarted, k.txCompleted, k.txAborted)}]
    /\ UNCHANGED <<wals, disk, hist, mgrVars, rotation, txLock, committed, flushVars>>

\* BeginTransaction: m.txStarted.Add(1)
StatsBeginTransaction(c) ==
    /\ txs[c] = "idle"
    /\ last.txStarted < MaxStatTx
    /\ txs' = [txs EXCEPT ![c] = "open"]
    /\ StatsCount([last EXCEPT !.txStarted = AddUint64(@, 1)])

\* Commit: IncrementTxCompleted
StatsCommit(c) ==
    /\ txs[c] = "open"
    /\ txs' = [txs EXCEPT ![c] = "idle"]
    /\ StatsCount([last EXCEPT !.txCompleted = AddUint64(@, 1)])

\* Rollback: IncrementTxAborted
StatsRollback(c) ==
    /\ txs[c] = "open"
    /\ txs' = [txs EXCEPT ![c] = "idle"]
    /\ StatsCount([last EXCEPT !.txAborted = AddUint64(@, 1)])

\* GetTransactionStats is called.
StatsCall ==
    /\ threads[1].pc = "idle"
    /\ Len(hist) < MaxStatCalls
    /\ threads' = <<[pc |-> "loading", loads |-> <<>>,
                     seen |-> {ActiveOf(last.txStarted, last.txCompleted, last.txAborted)}]>>
    /\ UNCHANGED <<wals, disk, hist, last, mgrVars, rotation, txVars, flushVars>>

\* GetTransactionStats: one of its first five loads.
StatsLoad ==
    /\ threads[1].pc = "loading"
    /\ Len(threads[1].loads) < Len(StatsLoadOrder) - 1
    /\ threads' = [threads EXCEPT ![1].loads =
                      Append(@, last[StatsLoadOrder[Len(threads[1].loads) + 1]])]
    /\ UNCHANGED <<wals, disk, hist, last, mgrVars, rotation, txVars, flushVars>>

\* GetTransactionStats: the last load, the subtraction and the return.
StatsReturn ==
    /\ threads[1].pc = "loading"
    /\ Len(threads[1].loads) = Len(StatsLoadOrder) - 1
    /\ hist' = Append(hist, [stats |-> StatsMap(Append(threads[1].loads, last.txAborted)),
                             seen |-> threads[1].seen, txStarted |-> last.txStarted])
    /\ threads' = <<StatsIdle>>
    /\ UNCHANGED <<wals, disk, last, mgrVars, rotation, txVars, flushVars>>

StatsNext ==
    \/ \E c \in Clients : StatsBeginTransaction(c)
    \/ \E c \in Clients : StatsCommit(c)
    \/ \E c \in Clients : StatsRollback(c)
    \/ StatsCall
    \/ StatsLoad
    \/ StatsReturn

SpecStats == StatsInit /\ [][StatsNext]_vars

\* C39: the tx_active that GetTransactionStats reports is the number of
\* transactions started and neither committed nor rolled back at one instant
\* of the call, and it never exceeds the number of transactions started, also
\* when clients begin, commit and roll back during the call.
C39_ActiveIsConsistent ==
    \A i \in 1..Len(hist) :
       /\ hist[i].stats.tx_active \in hist[i].seen
       /\ hist[i].stats.tx_active <= hist[i].txStarted


(***************************************************************************)
(* Specification SpecLive: clients that begin, commit and roll back        *)
(* transactions without end.  A client begins a transaction of either      *)
(* mode whenever it holds none.  SpecLiveFair adds the scheduling the      *)
(* transaction lock and the callers give: a goroutine that can take a step *)
(* takes it, a goroutine waiting at RLock or at the inner lock of Lock is  *)
(* not passed over for ever, and every transaction handed out is           *)
(* committed or rolled back.                                               *)
(***************************************************************************)
LiveClients == 1..(NumClients + 1)

LiveInit ==
    /\ wals = NewManager(Cfg(SyncBatch)).wals
    /\ disk = NewManager(Cfg(SyncBatch)).disk
    /\ mgr = NewManager(Cfg(SyncBatch)).m
    /\ txs = [c \in LiveClients |-> NoClientTx]
    /\ txLock = NewRWMutex
    /\ committed = [key \in TxKeys |-> KeyNotFound]
    /\ threads = NoThreads
    /\ rotation = NoRotation
    /\ NoFlush
    /\ writes = <<>>
    /\ hist = <<>>
    /\ last = NoCall

\* BeginTransaction is called: the transaction is built.
LiveCreate(c) ==
    /\ txs[c].pc \in {"idle", "open"}
    /\ ~txs[c].tx.active
    /\ \E mode \in {ReadOnly, ReadWrite} :
          txs' = [txs EXCEPT ![c].pc = "created", ![c].tx = NewTransaction(mode)]
    /\ UNCHANGED <<wals, disk, mgr, txLock, committed, notTx>>

LiveNext ==
    \/ \E c \in LiveClients : LiveCreate(c)
    \/ \E c \in LiveClients : BeginRLock(c)
    \/ \E c \in LiveClients : BeginLock(c)
    \/ \E c \in LiveClients : BeginLocked(c)
    \/ \E c \in LiveClients : Commit(c)
    \/ \E c \in LiveClients : Rollback(c)

SpecLive == LiveInit /\ [][LiveNext]_vars

LiveFairness ==
    /\ \A c \in LiveClients : SF_vars(BeginRLock(c))
    /\ \A c \in LiveClients : SF_vars(BeginLock(c))
    /\ \A c \in LiveClients : WF_vars(BeginLocked(c))
    /\ \A c \in LiveClients : WF_vars(Commit(c) \/ Rollback(c))

SpecLiveFair == SpecLive /\ LiveFairness

\* BeginTransaction of client c has been called and has not returned.
InBegin(c) == txs[c].pc \in {"created", "waiting"}

\* C40: every call of BeginTransaction eventually takes the transaction lock
\* and returns, when every transaction handed out is eventually committed or
\* rolled back; a read-write begin is not kept waiting for ever by read-only
\* transactions that keep beginning.
C40_BeginEventuallyReturns ==
    \A c \in LiveClients : InBegin(c) ~> (txs[c].pc = "open" /\ txs[c].tx.active)

\* A read-write begin waits for a read-only transaction that holds the lock,
\* while another read-only begin is held back behind it.
C40_Witness ==
    \E w, r, n \in LiveClients :
       /\ txs[w].pc = "waiting"
       /\ txs[r].pc = "open" /\ txs[r].tx.hasReadLock
       /\ txs[n].pc = "created" /\ txs[n].tx.mode = ReadOnly
       /\ ~CanRLock(txLock)

====
